---- MODULE Spec2Model ----
(***************************************************************************)
(* Model of the lyre (talharpa) calculator: the form handlers of main.js,  *)
(* the dimension derivation generateCriticalDimensions and the views it    *)
(* draws.                                                                  *)
(*                                                                         *)
(* Numbers.  The program computes in IEEE doubles; the model computes the  *)
(* same expressions in exact rational arithmetic.  A rational is a pair    *)
(* <<n, d>> in lowest terms with d > 0.  A scale length is entered in      *)
(* centimetres; the model's grid for it is 0.01 cm (0.1 mm), so a finite   *)
(* scale length is carried as the integer number of hundredths of a        *)
(* centimetre and converted with CmOf where the code reads it as a number. *)
(***************************************************************************)
EXTENDS Integers, Sequences, FiniteSets, TLC

----------------------------------------------------------------------------
(* Exact rational arithmetic *)

Abs(i) == IF i < 0 THEN -i ELSE i

RECURSIVE GCD(_, _)
GCD(a, b) == IF b = 0 THEN a ELSE GCD(b, a % b)

\* n/d in lowest terms, denominator positive
Norm(n, d) ==
  LET g == GCD(Abs(n), Abs(d))
      s == IF d < 0 THEN -1 ELSE 1
  IN  << (s * n) \div g, (s * d) \div g >>

R(i) == << i, 1 >>
Frac(n, d) == Norm(n, d)

RMul(a, b) ==
  LET g1 == GCD(Abs(a[1]), b[2])
      g2 == GCD(Abs(b[1]), a[2])
  IN  Norm((a[1] \div g1) * (b[1] \div g2), (a[2] \div g2) * (b[2] \div g1))

RDiv(a, b) == RMul(a, IF b[1] < 0 THEN << -b[2], -b[1] >> ELSE << b[2], b[1] >>)

RAdd(a, b) ==
  LET g == GCD(a[2], b[2])
  IN  Norm(a[1] * (b[2] \div g) + b[1] * (a[2] \div g), (a[2] \div g) * b[2])

RNeg(a) == << -a[1], a[2] >>
RSub(a, b) == RAdd(a, RNeg(b))

RLt(a, b) == RSub(a, b)[1] < 0
RLe(a, b) == RSub(a, b)[1] <= 0
RGt(a, b) == RLt(b, a)
RGe(a, b) == RLe(b, a)

\* Math.max / Math.min
MathMax(a, b) == IF RLt(a, b) THEN b ELSE a
MathMin(a, b) == IF RLt(b, a) THEN b ELSE a

\* floor of a rational (\div rounds towards minus infinity)
Floor(a) == a[1] \div a[2]

\* Number.prototype.toFixed(digits): the decimal string with `digits`
\* fraction digits nearest to x, the larger one on a tie.  The string is
\* carried as the integer it spells once the decimal point is dropped
\* ("664.0" is 6640 with digits = 1).
Pow10(k) == IF k = 0 THEN 1 ELSE IF k = 1 THEN 10 ELSE 100
toFixed(x, digits) ==
  [digits |-> digits,
   text   |-> Floor(RAdd(RMul(x, R(Pow10(digits))), Frac(1, 2)))]

----------------------------------------------------------------------------
(* Values of the scaleLength input after parseFloat *)

NaN == [kind |-> "NaN", v |-> 0]
PosInfinity == [kind |-> "Infinity", v |-> 0]
NegInfinity == [kind |-> "-Infinity", v |-> 0]
Num(v) == [kind |-> "num", v |-> v]

\* the number a finite scale length stands for, in centimetres
CmOf(s) == Frac(s.v, 100)

isNaN(s) == s.kind = "NaN"
\* s < c and s > c for a parsed value s and an integer constant c (cm);
\* every comparison with NaN is false
NumLt(s, c) ==
  CASE s.kind = "NaN" -> FALSE
    [] s.kind = "Infinity" -> FALSE
    [] s.kind = "-Infinity" -> TRUE
    [] OTHER -> RLt(CmOf(s), R(c))
NumGt(s, c) ==
  CASE s.kind = "NaN" -> FALSE
    [] s.kind = "Infinity" -> TRUE
    [] s.kind = "-Infinity" -> FALSE
    [] OTHER -> RGt(CmOf(s), R(c))

----------------------------------------------------------------------------
(* main.js: validation *)

\* faulty variant: the NaN test left out
validateScaleLength_noNaN(scaleLength) ==
  ~(NumLt(scaleLength, 26) \/ NumGt(scaleLength, 70))

\* validateScaleLength(scaleLength): true iff the value passes; a rejected
\* value raises the "between 26 and 70 cm" notification
validateScaleLength(scaleLength) ==
  ~(isNaN(scaleLength) \/ NumLt(scaleLength, 26) \/ NumGt(scaleLength, 70))

----------------------------------------------------------------------------
(* main.js: the piecewise helpers of the dimension derivation.  scaleCm is *)
(* a rational number of centimetres.                                       *)

\* faulty variant: the fraction taken over 56 instead of 56 - 30
calcBridgeWidthFromScale_span(scaleCm) ==
  IF RLe(scaleCm, R(30)) THEN R(60)
  ELSE IF RGe(scaleCm, R(56)) THEN R(70)
  ELSE LET frac == RDiv(RSub(scaleCm, R(30)), R(56))
       IN  RAdd(R(60), RMul(R(70 - 60), frac))

\* calcBridgeWidthFromScale(scaleCm)
calcBridgeWidthFromScale(scaleCm) ==
  IF RLe(scaleCm, R(30)) THEN R(60)
  ELSE IF RGe(scaleCm, R(56)) THEN R(70)
  ELSE LET frac == RDiv(RSub(scaleCm, R(30)), R(56 - 30))
       IN  RAdd(R(60), RMul(R(70 - 60), frac))

\* faulty variant: the multiplier interpolated the wrong way round
calcOverallLength_swapped(scaleCm) ==
  IF RLe(scaleCm, R(40)) THEN RMul(RMul(scaleCm, Frac(166, 100)), R(10))
  ELSE IF RGe(scaleCm, R(56)) THEN RMul(RMul(scaleCm, Frac(143, 100)), R(10))
  ELSE LET fraction  == RDiv(RSub(scaleCm, R(40)), R(56 - 40))
           startMult == Frac(143, 100)
           endMult   == Frac(166, 100)
           mult      == RAdd(startMult, RMul(RSub(endMult, startMult), fraction))
       IN  RMul(RMul(scaleCm, mult), R(10))

\* calcOverallLength(scaleCm), in mm; 1.66 is 166/100 and 1.43 is 143/100
calcOverallLength(scaleCm) ==
  IF RLe(scaleCm, R(40)) THEN RMul(RMul(scaleCm, Frac(166, 100)), R(10))
  ELSE IF RGe(scaleCm, R(56)) THEN RMul(RMul(scaleCm, Frac(143, 100)), R(10))
  ELSE LET fraction  == RDiv(RSub(scaleCm, R(40)), R(56 - 40))
           startMult == Frac(166, 100)
           endMult   == Frac(143, 100)
           mult      == RAdd(startMult, RMul(RSub(endMult, startMult), fraction))
       IN  RMul(RMul(scaleCm, mult), R(10))

\* faulty variant: the second segment interpolated from 160 instead of 190
calcBodyMinWidth_base(scaleCm) ==
  IF RLe(scaleCm, R(32)) THEN R(160)
  ELSE IF RGe(scaleCm, R(56)) THEN R(210)
  ELSE IF RLe(scaleCm, R(37))
       THEN LET frac == RDiv(RSub(scaleCm, R(32)), R(37 - 32))
            IN  RAdd(R(160), RMul(R(190 - 160), frac))
       ELSE LET frac2 == RDiv(RSub(scaleCm, R(37)), R(56 - 37))
            IN  RAdd(R(160), RMul(R(210 - 160), frac2))

\* calcBodyMinWidth(scaleCm)
calcBodyMinWidth(scaleCm) ==
  IF RLe(scaleCm, R(32)) THEN R(160)
  ELSE IF RGe(scaleCm, R(56)) THEN R(210)
  ELSE IF RLe(scaleCm, R(37))
       THEN LET frac == RDiv(RSub(scaleCm, R(32)), R(37 - 32))
            IN  RAdd(R(160), RMul(R(190 - 160), frac))
       ELSE LET frac2 == RDiv(RSub(scaleCm, R(37)), R(56 - 37))
            IN  RAdd(R(190), RMul(R(210 - 190), frac2))

----------------------------------------------------------------------------
(* main.js: generateCriticalDimensions, the values it derives *)

pegSpacing == 36
marginPerSide == 12
cutOutTop == 35
bridgeLength == 5
tailRadius == 4

\* faulty variant: one peg spacing per gap between pegs instead of per string
calcWindowWidth_gaps(numStrings) == pegSpacing * (numStrings - 1)

\* (C) window length, (D) window width, (F) headstock width
calcWindowLength(scaleMm) == RAdd(RMul(scaleMm, Frac(5, 10)), R(20))
calcWindowWidth(numStrings) == pegSpacing * numStrings
calcHeadstockWidth(windowWidth) == windowWidth + 50

\* faulty variant: the span divided by the number of strings
bridgeGap_perString(rawBridgeWidth, numStrings) ==
  LET span       == RSub(rawBridgeWidth, R(2 * marginPerSide))
      usableSpan == IF RLt(span, R(0)) THEN R(0) ELSE span
  IN  IF numStrings > 1
      THEN LET gap == RDiv(usableSpan, R(numStrings))
           IN  IF RLt(gap, R(0)) THEN R(0) ELSE gap
      ELSE R(0)

\* (H) the gap between string centres at the bridge
bridgeGap(rawBridgeWidth, numStrings) ==
  LET span       == RSub(rawBridgeWidth, R(2 * marginPerSide))
      usableSpan == IF RLt(span, R(0)) THEN R(0) ELSE span
  IN  IF numStrings > 1
      THEN LET gap == RDiv(usableSpan, R(numStrings - 1))
           IN  IF RLt(gap, R(0)) THEN R(0) ELSE gap
      ELSE R(0)

\* faulty variant: Math.max and Math.min exchanged
calcBodyMinDepth_minmax(scaleMm) ==
  LET calculatedDepth == RMul(scaleMm, Frac(12, 100))
  IN  MathMin(R(45), MathMax(calculatedDepth, R(70)))

\* (J) Math.max(45, Math.min(scaleMm * 0.12, 70))
calcBodyMinDepth(scaleMm) ==
  LET calculatedDepth == RMul(scaleMm, Frac(12, 100))
  IN  MathMax(R(45), MathMin(calculatedDepth, R(70)))

\* faulty variant: the divisor 1.9 below 350 mm, as the front view has it
calcSoundHoleCenter_switch(scaleMm, windowLength) ==
  RAdd(RAdd(RDiv(RSub(RSub(scaleMm, windowLength), Frac(cutOutTop, 2)),
                 IF RLt(scaleMm, R(350)) THEN Frac(19, 10) ELSE Frac(185, 100)),
            windowLength),
       R(cutOutTop))

\* (O) soundhole centre, measured from the top of the instrument
calcSoundHoleCenter(scaleMm, windowLength) ==
  RAdd(RAdd(RDiv(RSub(RSub(scaleMm, windowLength), Frac(cutOutTop, 2)),
                 Frac(185, 100)),
            windowLength),
       R(cutOutTop))

\* faulty variant: the threshold not strict
calcNeckThickness_ge(scaleMm) ==
  IF RGe(scaleMm, R(450)) THEN 35 ELSE 25

\* (Q) neck thickness
calcNeckThickness(scaleMm) ==
  IF RGt(scaleMm, R(450)) THEN 35 ELSE 25

\* faulty variant: the neck started half way down to the soundhole
calcNeckStart_half(soundHoleCenter, bottomOfWindow) ==
  RAdd(RDiv(RSub(soundHoleCenter, bottomOfWindow), R(2)), bottomOfWindow)

\* (P) neck start, measured from the top of the instrument
calcNeckStart(soundHoleCenter, bottomOfWindow) ==
  RAdd(RDiv(RSub(soundHoleCenter, bottomOfWindow), R(3)), bottomOfWindow)

\* The local constants of one run of generateCriticalDimensions(scaleCm,
\* numStrings), in the order the code computes them.
DeriveDimensions(scaleCm, numStrings) ==
  LET scaleMm         == RMul(scaleCm, R(10))
      pegToBridge     == scaleMm
      overallLenMm    == calcOverallLength(scaleCm)
      windowLength    == calcWindowLength(scaleMm)
      windowWidth     == calcWindowWidth(numStrings)
      headstockWidth  == calcHeadstockWidth(windowWidth)
      rawBridgeWidth  == calcBridgeWidthFromScale(scaleCm)
      gap             == bridgeGap(rawBridgeWidth, numStrings)
      bodyMinWidth    == calcBodyMinWidth(scaleCm)
      bodyMinDepth    == calcBodyMinDepth(scaleMm)
      soundHoleCenter == calcSoundHoleCenter(scaleMm, windowLength)
      bottomOfWindow  == RAdd(windowLength, R(cutOutTop))
      neckStart       == calcNeckStart(soundHoleCenter, bottomOfWindow)
      neckThickness   == calcNeckThickness(scaleMm)
      tailTopWidth    == RMul(gap, R(numStrings))
      tailBottomWidth == RMul(tailTopWidth, Frac(7, 10))
      diff0           == RSub(overallLenMm, scaleMm)
      diff            == IF RLt(diff0, R(0)) THEN R(0) ELSE diff0
      tailLength      == RMul(Frac(4, 10), diff)
  IN  [scaleCm |-> scaleCm, numStrings |-> numStrings,
       scaleMm |-> scaleMm, pegToBridge |-> pegToBridge,
       overallLenMm |-> overallLenMm, windowLength |-> windowLength,
       windowWidth |-> R(windowWidth), headstockWidth |-> R(headstockWidth),
       rawBridgeWidth |-> rawBridgeWidth, gap |-> gap,
       bodyMinWidth |-> bodyMinWidth, bodyMinDepth |-> bodyMinDepth,
       soundHoleCenter |-> soundHoleCenter, neckStart |-> neckStart,
       neckThickness |-> R(neckThickness),
       tailTopWidth |-> tailTopWidth, tailBottomWidth |-> tailBottomWidth,
       tailLength |-> tailLength]

\* the dims array: key and value of each row (name and comment are fixed
\* texts per key); N is the bare number cutOutTop, not a toFixed string
DimsArray(L) ==
  << [key |-> "A", value |-> toFixed(L.pegToBridge, 1)],
     [key |-> "B", value |-> toFixed(L.overallLenMm, 1)],
     [key |-> "C", value |-> toFixed(L.windowLength, 1)],
     [key |-> "D", value |-> toFixed(L.windowWidth, 1)],
     [key |-> "E", value |-> toFixed(R(pegSpacing), 1)],
     [key |-> "F", value |-> toFixed(L.headstockWidth, 1)],
     [key |-> "G", value |-> toFixed(L.rawBridgeWidth, 1)],
     [key |-> "H", value |-> toFixed(L.gap, 1)],
     [key |-> "I", value |-> toFixed(L.bodyMinWidth, 1)],
     [key |-> "J", value |-> toFixed(L.bodyMinDepth, 1)],
     [key |-> "K", value |-> toFixed(L.tailTopWidth, 0)],
     [key |-> "L", value |-> toFixed(L.tailBottomWidth, 0)],
     [key |-> "M", value |-> toFixed(L.tailLength, 0)],
     [key |-> "N", value |-> [digits |-> 0, text |-> cutOutTop]],
     [key |-> "O", value |-> toFixed(L.soundHoleCenter, 0)],
     [key |-> "P", value |-> toFixed(L.neckStart, 0)],
     [key |-> "Q", value |-> toFixed(L.neckThickness, 0)] >>

\* the config object handed to the three views
ConfigOf(L) ==
  [headstockWidth |-> L.headstockWidth, bodyMinWidth |-> L.bodyMinWidth,
   bodyMinDepth |-> L.bodyMinDepth, overallLenMm |-> L.overallLenMm,
   cutOutTop |-> R(cutOutTop), windowWidth |-> L.windowWidth,
   windowLength |-> L.windowLength, neckStart |-> L.neckStart,
   neckThickness |-> L.neckThickness,
   rTopFactor |-> Frac(8, 100), rBottomFactor |-> Frac(2, 10),
   rWindowFactor |-> Frac(8, 100),
   rawBridgeWidth |-> L.rawBridgeWidth, bridgeLength |-> R(bridgeLength),
   pegStart |-> Frac(cutOutTop, 2), scaleMm |-> L.pegToBridge,
   pegSpacing |-> R(pegSpacing), numStrings |-> L.numStrings,
   pegHoleRadius |-> R(3), gap |-> L.gap,
   margin |-> R(10), svgWidthPx |-> 400, svgHeightPx |-> 800]

----------------------------------------------------------------------------
(* drawFront.js: drawTalharpaSVG(config).  The SVG element is carried as a *)
(* record of the primitives it holds; coordinates are rationals in the     *)
(* viewBox's millimetres.                                                  *)

\* defaults of the destructured config (the config built by
\* generateCriticalDimensions sets neither drawingMargin nor extraMargin)
drawingMargin == 10
extraMargin == 50

\* faulty variant: the circle drawn with the diameter as its radius
frontCentralHole_diameter(config, totalMargin, topMidX) ==
  LET scaleMm       == config.scaleMm
      windowY       == RAdd(totalMargin, config.cutOutTop)
      bridgeCenterY == RAdd(RAdd(totalMargin, config.pegStart), scaleMm)
      bridgeY       == RSub(bridgeCenterY, RDiv(config.bridgeLength, R(2)))
      small         == RLt(scaleMm, R(350))
      centralHoleDiameter == IF small THEN R(30) ELSE R(50)
      centralHoleRadius   == RDiv(centralHoleDiameter, R(2))
      windowBottomY == RAdd(windowY, config.windowLength)
      centralHoleCenterY ==
        IF small THEN RDiv(RAdd(windowBottomY, bridgeY), Frac(19, 10))
                 ELSE RDiv(RAdd(windowBottomY, bridgeY), Frac(185, 100))
  IN  [cx |-> topMidX, cy |-> centralHoleCenterY, r |-> centralHoleDiameter]

\* faulty variant: the small hole up to and including 350 mm
frontCentralHole_le(config, totalMargin, topMidX) ==
  LET scaleMm       == config.scaleMm
      windowY       == RAdd(totalMargin, config.cutOutTop)
      bridgeCenterY == RAdd(RAdd(totalMargin, config.pegStart), scaleMm)
      bridgeY       == RSub(bridgeCenterY, RDiv(config.bridgeLength, R(2)))
      small         == RLe(scaleMm, R(350))
      centralHoleDiameter == IF small THEN R(30) ELSE R(50)
      centralHoleRadius   == RDiv(centralHoleDiameter, R(2))
      windowBottomY == RAdd(windowY, config.windowLength)
      centralHoleCenterY ==
        IF small THEN RDiv(RAdd(windowBottomY, bridgeY), Frac(19, 10))
                 ELSE RDiv(RAdd(windowBottomY, bridgeY), Frac(185, 100))
  IN  [cx |-> topMidX, cy |-> centralHoleCenterY, r |-> centralHoleRadius]

\* the central circular hole in the main body
frontCentralHole(config, totalMargin, topMidX) ==
  LET scaleMm       == config.scaleMm
      windowY       == RAdd(totalMargin, config.cutOutTop)
      bridgeCenterY == RAdd(RAdd(totalMargin, config.pegStart), scaleMm)
      bridgeY       == RSub(bridgeCenterY, RDiv(config.bridgeLength, R(2)))
      small         == RLt(scaleMm, R(350))
      centralHoleDiameter == IF small THEN R(30) ELSE R(50)
      centralHoleRadius   == RDiv(centralHoleDiameter, R(2))
      windowBottomY == RAdd(windowY, config.windowLength)
      centralHoleCenterY ==
        IF small THEN RDiv(RAdd(windowBottomY, bridgeY), Frac(19, 10))
                 ELSE RDiv(RAdd(windowBottomY, bridgeY), Frac(185, 100))
  IN  [cx |-> topMidX, cy |-> centralHoleCenterY, r |-> centralHoleRadius]

\* SVG path data: one record per command.  A coordinate written into the
\* path string is carried as the number it was formatted from, so two
\* points are the same text exactly when they are the same numbers.
MoveTo(x, y) == [op |-> "M", r |-> R(0), sweep |-> 0, x |-> x, y |-> y]
LineTo(x, y) == [op |-> "L", r |-> R(0), sweep |-> 0, x |-> x, y |-> y]
ArcTo(r, sweep, x, y) == [op |-> "A", r |-> r, sweep |-> sweep, x |-> x, y |-> y]
ClosePath == [op |-> "Z", r |-> R(0), sweep |-> 0, x |-> R(0), y |-> R(0)]

\* the body outline (centred trapezoid with rounded corners); drawFrame.js
\* builds its outline from the same expressions
frontBodyOutline(config, totalMargin, topMidX) ==
  LET rTop         == RMul(config.rTopFactor, config.headstockWidth)
      rBottom      == RMul(config.rBottomFactor, config.bodyMinWidth)
      topY         == totalMargin
      bottomY      == RAdd(totalMargin, config.overallLenMm)
      topLeftX     == RSub(topMidX, RDiv(config.headstockWidth, R(2)))
      topRightX    == RAdd(topMidX, RDiv(config.headstockWidth, R(2)))
      bottomLeftX  == RSub(topMidX, RDiv(config.bodyMinWidth, R(2)))
      bottomRightX == RAdd(topMidX, RDiv(config.bodyMinWidth, R(2)))
      startX       == RAdd(topLeftX, rTop)
      startY       == topY
  IN  [rTop |-> rTop, rBottom |-> rBottom,
       topLeftX |-> topLeftX, topRightX |-> topRightX,
       bottomLeftX |-> bottomLeftX, bottomRightX |-> bottomRightX,
       d |-> << MoveTo(startX, startY),
                LineTo(RSub(topRightX, rTop), topY),
                ArcTo(rTop, 1, topRightX, RAdd(topY, rTop)),
                LineTo(bottomRightX, RSub(bottomY, rBottom)),
                ArcTo(rBottom, 1, RSub(bottomRightX, rBottom), bottomY),
                LineTo(RAdd(bottomLeftX, rBottom), bottomY),
                ArcTo(rBottom, 1, bottomLeftX, RSub(bottomY, rBottom)),
                LineTo(topLeftX, RAdd(topY, rTop)),
                ArcTo(rTop, 1, startX, topY),
                ClosePath >>]

\* the window cut-out rectangle
frontWindow(config, totalMargin, topMidX) ==
  LET windowX == RAdd(RSub(topMidX, RDiv(config.headstockWidth, R(2))),
                      RDiv(RSub(config.headstockWidth, config.windowWidth), R(2)))
      windowY == RAdd(totalMargin, config.cutOutTop)
  IN  [x |-> windowX, y |-> windowY, width |-> config.windowWidth,
       height |-> config.windowLength,
       rx |-> RMul(config.rWindowFactor, config.windowWidth)]

\* the bridge rectangle
frontBridge(config, totalMargin, topMidX) ==
  LET bridgeCenterY == RAdd(RAdd(totalMargin, config.pegStart), config.scaleMm)
      bridgeX == RAdd(RSub(topMidX, RDiv(config.headstockWidth, R(2))),
                      RDiv(RSub(config.headstockWidth, config.rawBridgeWidth), R(2)))
      bridgeY == RSub(bridgeCenterY, RDiv(config.bridgeLength, R(2)))
  IN  [x |-> bridgeX, y |-> bridgeY, width |-> config.rawBridgeWidth,
       height |-> config.bridgeLength]

\* faulty variant: the peg span taken over numStrings spacings
frontPegHoles_span(config, totalMargin, topMidX) ==
  LET pegLineY     == RAdd(totalMargin, config.pegStart)
      totalPegSpan == RMul(R(config.numStrings), config.pegSpacing)
      pegStartXPos == RSub(RAdd(RSub(topMidX, RDiv(config.headstockWidth, R(2))),
                                RDiv(config.headstockWidth, R(2))),
                           RDiv(totalPegSpan, R(2)))
  IN  [cy |-> pegLineY, r |-> config.pegHoleRadius,
       pegHolePositions |->
         [i \in 1..config.numStrings |->
            RAdd(pegStartXPos, RMul(R(i - 1), config.pegSpacing))]]

\* the peg holes: the i-th pass of the loop (i from 0) is element i + 1
frontPegHoles(config, totalMargin, topMidX) ==
  LET pegLineY     == RAdd(totalMargin, config.pegStart)
      totalPegSpan == RMul(R(config.numStrings - 1), config.pegSpacing)
      pegStartXPos == RSub(RAdd(RSub(topMidX, RDiv(config.headstockWidth, R(2))),
                                RDiv(config.headstockWidth, R(2))),
                           RDiv(totalPegSpan, R(2)))
  IN  [cy |-> pegLineY, r |-> config.pegHoleRadius,
       pegHolePositions |->
         [i \in 1..config.numStrings |->
            RAdd(pegStartXPos, RMul(R(i - 1), config.pegSpacing))]]

\* faulty variant: the anchors started at the bridge's left end
frontBridgeAnchors_fromEdge(config, bridge) ==
  LET totalBridgeSpanDim == RMul(R(config.numStrings - 1), config.gap)
      bridgeAnchorStartX == bridge.x
  IN  [i \in 1..config.numStrings |->
         RAdd(bridgeAnchorStartX, RMul(R(i - 1), config.gap))]

\* anchorXPositions: where the strings meet the bridge
frontBridgeAnchors(config, bridge) ==
  LET totalBridgeSpanDim == RMul(R(config.numStrings - 1), config.gap)
      bridgeAnchorStartX == RSub(RAdd(bridge.x, RDiv(config.rawBridgeWidth, R(2))),
                                 RDiv(totalBridgeSpanDim, R(2)))
  IN  [i \in 1..config.numStrings |->
         RAdd(bridgeAnchorStartX, RMul(R(i - 1), config.gap))]

\* the tail piece, from its top-left corner clockwise
frontTailPath(tailRadiusVal, tailTopY, tailBottomY, tailTopLeftX, tailTopRightX, tailBottomLeftX, tailBottomRightX) ==
  LET startTailX == RAdd(tailTopLeftX, tailRadiusVal)
      startTailY == tailTopY
  IN  << MoveTo(startTailX, startTailY),
         LineTo(RSub(tailTopRightX, tailRadiusVal), tailTopY),
         ArcTo(tailRadiusVal, 1, tailTopRightX, RAdd(tailTopY, tailRadiusVal)),
         LineTo(tailBottomRightX, RSub(tailBottomY, tailRadiusVal)),
         ArcTo(tailRadiusVal, 1, RSub(tailBottomRightX, tailRadiusVal), tailBottomY),
         LineTo(RAdd(tailBottomLeftX, tailRadiusVal), tailBottomY),
         ArcTo(tailRadiusVal, 1, tailBottomLeftX, RSub(tailBottomY, tailRadiusVal)),
         LineTo(tailTopLeftX, RAdd(tailTopY, tailRadiusVal)),
         ArcTo(tailRadiusVal, 1, startTailX, startTailY),
         ClosePath >>

\* faulty variant: the bottom width taken as three quarters of the top width
frontTailPiece_ratio(config, topMidX, bridge, bottomY) ==
  LET tailTopWidthVal == RMul(config.gap, R(config.numStrings))
      tailBottomWidth == RMul(tailTopWidthVal, Frac(75, 100))
      tailLengthVal   == RMul(Frac(4, 10), RSub(config.overallLenMm, config.scaleMm))
      tailRadiusVal   == R(4)
      regionStart     == RAdd(bridge.y, config.bridgeLength)
      regionEnd       == bottomY
      regionSpan      == RSub(regionEnd, regionStart)
      verticalOffset  == RDiv(RSub(regionSpan, tailLengthVal), R(2))
      tailTopY        == RAdd(regionStart, verticalOffset)
      tailBottomY     == RAdd(tailTopY, tailLengthVal)
      tailMidX        == topMidX
      tailTopLeftX     == RSub(tailMidX, RDiv(tailTopWidthVal, R(2)))
      tailTopRightX    == RAdd(tailMidX, RDiv(tailTopWidthVal, R(2)))
      tailBottomLeftX  == RSub(tailMidX, RDiv(tailBottomWidth, R(2)))
      tailBottomRightX == RAdd(tailMidX, RDiv(tailBottomWidth, R(2)))
  IN  [tailTopWidthVal |-> tailTopWidthVal, tailBottomWidth |-> tailBottomWidth,
       tailLengthVal |-> tailLengthVal, tailRadiusVal |-> tailRadiusVal,
       regionStart |-> regionStart, regionEnd |-> regionEnd,
       tailTopY |-> tailTopY, tailBottomY |-> tailBottomY,
       tailTopLeftX |-> tailTopLeftX, tailTopRightX |-> tailTopRightX,
       tailBottomLeftX |-> tailBottomLeftX, tailBottomRightX |-> tailBottomRightX,
       d |-> frontTailPath(tailRadiusVal, tailTopY, tailBottomY, tailTopLeftX,
                           tailTopRightX, tailBottomLeftX, tailBottomRightX)]

\* faulty variant: the whole spare length put above the tail piece
frontTailPiece_offset(config, topMidX, bridge, bottomY) ==
  LET tailTopWidthVal == RMul(config.gap, R(config.numStrings))
      tailBottomWidth == RMul(tailTopWidthVal, Frac(7, 10))
      tailLengthVal   == RMul(Frac(4, 10), RSub(config.overallLenMm, config.scaleMm))
      tailRadiusVal   == R(4)
      regionStart     == RAdd(bridge.y, config.bridgeLength)
      regionEnd       == bottomY
      regionSpan      == RSub(regionEnd, regionStart)
      verticalOffset  == RSub(regionSpan, tailLengthVal)
      tailTopY        == RAdd(regionStart, verticalOffset)
      tailBottomY     == RAdd(tailTopY, tailLengthVal)
      tailMidX        == topMidX
      tailTopLeftX     == RSub(tailMidX, RDiv(tailTopWidthVal, R(2)))
      tailTopRightX    == RAdd(tailMidX, RDiv(tailTopWidthVal, R(2)))
      tailBottomLeftX  == RSub(tailMidX, RDiv(tailBottomWidth, R(2)))
      tailBottomRightX == RAdd(tailMidX, RDiv(tailBottomWidth, R(2)))
  IN  [tailTopWidthVal |-> tailTopWidthVal, tailBottomWidth |-> tailBottomWidth,
       tailLengthVal |-> tailLengthVal, tailRadiusVal |-> tailRadiusVal,
       regionStart |-> regionStart, regionEnd |-> regionEnd,
       tailTopY |-> tailTopY, tailBottomY |-> tailBottomY,
       tailTopLeftX |-> tailTopLeftX, tailTopRightX |-> tailTopRightX,
       tailBottomLeftX |-> tailBottomLeftX, tailBottomRightX |-> tailBottomRightX,
       d |-> frontTailPath(tailRadiusVal, tailTopY, tailBottomY, tailTopLeftX,
                           tailTopRightX, tailBottomLeftX, tailBottomRightX)]

\* the tail piece: the view recomputes its three dimensions from gap,
\* numStrings, overallLenMm and scaleMm (no clamp on the length here)
frontTailPiece(config, topMidX, bridge, bottomY) ==
  LET tailTopWidthVal == RMul(config.gap, R(config.numStrings))
      tailBottomWidth == RMul(tailTopWidthVal, Frac(7, 10))
      tailLengthVal   == RMul(Frac(4, 10), RSub(config.overallLenMm, config.scaleMm))
      tailRadiusVal   == R(4)
      regionStart     == RAdd(bridge.y, config.bridgeLength)
      regionEnd       == bottomY
      regionSpan      == RSub(regionEnd, regionStart)
      verticalOffset  == RDiv(RSub(regionSpan, tailLengthVal), R(2))
      tailTopY        == RAdd(regionStart, verticalOffset)
      tailBottomY     == RAdd(tailTopY, tailLengthVal)
      tailMidX        == topMidX
      tailTopLeftX     == RSub(tailMidX, RDiv(tailTopWidthVal, R(2)))
      tailTopRightX    == RAdd(tailMidX, RDiv(tailTopWidthVal, R(2)))
      tailBottomLeftX  == RSub(tailMidX, RDiv(tailBottomWidth, R(2)))
      tailBottomRightX == RAdd(tailMidX, RDiv(tailBottomWidth, R(2)))
  IN  [tailTopWidthVal |-> tailTopWidthVal, tailBottomWidth |-> tailBottomWidth,
       tailLengthVal |-> tailLengthVal, tailRadiusVal |-> tailRadiusVal,
       regionStart |-> regionStart, regionEnd |-> regionEnd,
       tailTopY |-> tailTopY, tailBottomY |-> tailBottomY,
       tailTopLeftX |-> tailTopLeftX, tailTopRightX |-> tailTopRightX,
       tailBottomLeftX |-> tailBottomLeftX, tailBottomRightX |-> tailBottomRightX,
       d |-> frontTailPath(tailRadiusVal, tailTopY, tailBottomY, tailTopLeftX,
                           tailTopRightX, tailBottomLeftX, tailBottomRightX)]

\* faulty variant: the first hole put on the left end (spacing * i, i from 0)
frontTailHoles_fromLeft(numStrings, tail) ==
  LET tailHoleLineY == RAdd(tail.tailTopY, R(13))
      spacing       == RDiv(tail.tailTopWidthVal, R(numStrings + 1))
  IN  [cy |-> tailHoleLineY, r |-> R(3),
       tailHolePositions |->
         IF numStrings = 1
         THEN << RDiv(RAdd(tail.tailTopLeftX, tail.tailTopRightX), R(2)) >>
         ELSE [i \in 1..numStrings |->
                 RAdd(tail.tailTopLeftX, RMul(spacing, R(i - 1)))]]

\* faulty variant: the top width divided by numStrings instead of numStrings + 1
frontTailHoles_perString(numStrings, tail) ==
  LET tailHoleLineY == RAdd(tail.tailTopY, R(13))
      spacing       == RDiv(tail.tailTopWidthVal, R(numStrings))
  IN  [cy |-> tailHoleLineY, r |-> R(3),
       tailHolePositions |->
         IF numStrings = 1
         THEN << RDiv(RAdd(tail.tailTopLeftX, tail.tailTopRightX), R(2)) >>
         ELSE [i \in 1..numStrings |->
                 RAdd(tail.tailTopLeftX, RMul(spacing, R(i)))]]

\* the tail piece holes: pass i of the loop (i from 0) puts element i + 1 at
\* tailTopLeftX + spacing * (i + 1)
frontTailHoles(numStrings, tail) ==
  LET tailHoleLineY == RAdd(tail.tailTopY, R(13))
      spacing       == RDiv(tail.tailTopWidthVal, R(numStrings + 1))
  IN  [cy |-> tailHoleLineY, r |-> R(3),
       tailHolePositions |->
         IF numStrings = 1
         THEN << RDiv(RAdd(tail.tailTopLeftX, tail.tailTopRightX), R(2)) >>
         ELSE [i \in 1..numStrings |->
                 RAdd(tail.tailTopLeftX, RMul(spacing, R(i)))]]

\* the vertical position of the line drawn at the neckStart level
frontNeckY(config, totalMargin) == RAdd(totalMargin, config.neckStart)

\* the neck line itself, as wide as the width interpolated at the neckStart
\* level; like the frame's inset it is evaluated at the scale lengths of
\* FrameScaleValues, and the view's element carries its height only
frontNeckLine(config, totalMargin, topMidX) ==
  LET widthAtNeck ==
        RAdd(config.headstockWidth,
             RMul(RSub(config.bodyMinWidth, config.headstockWidth),
                  RDiv(config.neckStart, config.overallLenMm)))
      neckY       == frontNeckY(config, totalMargin)
      leftAtNeck  == RSub(topMidX, RDiv(widthAtNeck, R(2)))
      rightAtNeck == RAdd(topMidX, RDiv(widthAtNeck, R(2)))
  IN  [x1 |-> leftAtNeck, y1 |-> neckY, x2 |-> rightAtNeck, y2 |-> neckY]

drawTalharpaSVG(config) ==
  LET totalMargin  == R(drawingMargin + extraMargin)
      maxBodyWidth == MathMax(config.headstockWidth, config.bodyMinWidth)
      viewBoxWidth  == RAdd(maxBodyWidth, RMul(totalMargin, R(2)))
      viewBoxHeight == RAdd(config.overallLenMm, RMul(totalMargin, R(2)))
      topY    == totalMargin
      bottomY == RAdd(totalMargin, config.overallLenMm)
      topMidX == RAdd(totalMargin, RDiv(maxBodyWidth, R(2)))
      bridge  == frontBridge(config, totalMargin, topMidX)
      tail    == frontTailPiece(config, topMidX, bridge, bottomY)
  IN  [view |-> "front",
       viewBox |-> << R(0), R(0), viewBoxWidth, viewBoxHeight >>,
       topY |-> topY, bottomY |-> bottomY, topMidX |-> topMidX,
       outline |-> frontBodyOutline(config, totalMargin, topMidX),
       window |-> frontWindow(config, totalMargin, topMidX),
       bridge |-> bridge,
       pegs |-> frontPegHoles(config, totalMargin, topMidX),
       anchorXPositions |-> frontBridgeAnchors(config, bridge),
       tail |-> tail,
       tailHoles |-> frontTailHoles(config.numStrings, tail),
       centralHole |-> frontCentralHole(config, totalMargin, topMidX),
       neckY |-> frontNeckY(config, totalMargin),
       config |-> config]

----------------------------------------------------------------------------
(* drawSide.js: drawTalharpaSideSVG(config) *)

Pt(x, y) == [x |-> x, y |-> y]

\* faulty variant: the neck join's sweep flag not inverted
sideBodyOutline_sweep(config, M) ==
  LET rFixed == R(3)
      rBlend == RDiv(RSub(config.bodyMinDepth, config.neckThickness), R(2))
      A  == Pt(RAdd(M, config.bodyMinDepth), RAdd(M, config.overallLenMm))
      B  == Pt(RAdd(M, config.bodyMinDepth), M)
      C  == Pt(RSub(RAdd(M, config.bodyMinDepth), config.neckThickness), M)
      D  == Pt(RSub(RAdd(M, config.bodyMinDepth), config.neckThickness),
               RAdd(M, config.neckStart))
      E  == Pt(M, RAdd(M, config.neckStart))
      F  == Pt(M, RAdd(M, config.overallLenMm))
      B1 == Pt(B.x, RAdd(B.y, rFixed))
      B2 == Pt(RSub(B.x, rFixed), B.y)
      C1 == Pt(RAdd(C.x, rFixed), C.y)
      C2 == Pt(C.x, RAdd(C.y, rFixed))
      D1 == Pt(D.x, RSub(D.y, rBlend))
      D2 == Pt(RSub(D.x, rBlend), D.y)
      E1 == Pt(RAdd(E.x, rFixed), E.y)
      E2 == Pt(E.x, RAdd(E.y, rFixed))
      F1 == Pt(F.x, RSub(F.y, rFixed))
      F2 == Pt(RAdd(F.x, rFixed), F.y)
      A1 == Pt(RSub(A.x, rFixed), A.y)
      A2 == Pt(A.x, RSub(A.y, rFixed))
  IN  [rFixed |-> rFixed, rBlend |-> rBlend,
       A |-> A, B |-> B, C |-> C, D |-> D, E |-> E, F |-> F,
       dPath |-> << MoveTo(A2.x, A2.y),
                    LineTo(B1.x, B1.y),
                    ArcTo(rFixed, 0, B2.x, B2.y),
                    LineTo(C1.x, C1.y),
                    ArcTo(rFixed, 0, C2.x, C2.y),
                    LineTo(D1.x, D1.y),
                    ArcTo(rBlend, 0, D2.x, D2.y),
                    LineTo(E1.x, E1.y),
                    ArcTo(rFixed, 0, E2.x, E2.y),
                    LineTo(F1.x, F1.y),
                    ArcTo(rFixed, 0, F2.x, F2.y),
                    LineTo(A1.x, A1.y),
                    ArcTo(rFixed, 0, A2.x, A2.y),
                    ClosePath >>]

\* faulty variant: the blend radius not halved
sideBodyOutline_full(config, M) ==
  LET rFixed == R(3)
      rBlend == RSub(config.bodyMinDepth, config.neckThickness)
      A  == Pt(RAdd(M, config.bodyMinDepth), RAdd(M, config.overallLenMm))
      B  == Pt(RAdd(M, config.bodyMinDepth), M)
      C  == Pt(RSub(RAdd(M, config.bodyMinDepth), config.neckThickness), M)
      D  == Pt(RSub(RAdd(M, config.bodyMinDepth), config.neckThickness),
               RAdd(M, config.neckStart))
      E  == Pt(M, RAdd(M, config.neckStart))
      F  == Pt(M, RAdd(M, config.overallLenMm))
      B1 == Pt(B.x, RAdd(B.y, rFixed))
      B2 == Pt(RSub(B.x, rFixed), B.y)
      C1 == Pt(RAdd(C.x, rFixed), C.y)
      C2 == Pt(C.x, RAdd(C.y, rFixed))
      D1 == Pt(D.x, RSub(D.y, rBlend))
      D2 == Pt(RSub(D.x, rBlend), D.y)
      E1 == Pt(RAdd(E.x, rFixed), E.y)
      E2 == Pt(E.x, RAdd(E.y, rFixed))
      F1 == Pt(F.x, RSub(F.y, rFixed))
      F2 == Pt(RAdd(F.x, rFixed), F.y)
      A1 == Pt(RSub(A.x, rFixed), A.y)
      A2 == Pt(A.x, RSub(A.y, rFixed))
  IN  [rFixed |-> rFixed, rBlend |-> rBlend,
       A |-> A, B |-> B, C |-> C, D |-> D, E |-> E, F |-> F,
       dPath |-> << MoveTo(A2.x, A2.y),
                    LineTo(B1.x, B1.y),
                    ArcTo(rFixed, 0, B2.x, B2.y),
                    LineTo(C1.x, C1.y),
                    ArcTo(rFixed, 0, C2.x, C2.y),
                    LineTo(D1.x, D1.y),
                    ArcTo(rBlend, 1, D2.x, D2.y),
                    LineTo(E1.x, E1.y),
                    ArcTo(rFixed, 0, E2.x, E2.y),
                    LineTo(F1.x, F1.y),
                    ArcTo(rFixed, 0, F2.x, F2.y),
                    LineTo(A1.x, A1.y),
                    ArcTo(rFixed, 0, A2.x, A2.y),
                    ClosePath >>]

\* the body outline: ideal corner points A..F, the two tangent points of
\* each corner, and the path from A2 round to A2
sideBodyOutline(config, M) ==
  LET rFixed == R(3)
      rBlend == RDiv(RSub(config.bodyMinDepth, config.neckThickness), R(2))
      A  == Pt(RAdd(M, config.bodyMinDepth), RAdd(M, config.overallLenMm))
      B  == Pt(RAdd(M, config.bodyMinDepth), M)
      C  == Pt(RSub(RAdd(M, config.bodyMinDepth), config.neckThickness), M)
      D  == Pt(RSub(RAdd(M, config.bodyMinDepth), config.neckThickness),
               RAdd(M, config.neckStart))
      E  == Pt(M, RAdd(M, config.neckStart))
      F  == Pt(M, RAdd(M, config.overallLenMm))
      B1 == Pt(B.x, RAdd(B.y, rFixed))
      B2 == Pt(RSub(B.x, rFixed), B.y)
      C1 == Pt(RAdd(C.x, rFixed), C.y)
      C2 == Pt(C.x, RAdd(C.y, rFixed))
      D1 == Pt(D.x, RSub(D.y, rBlend))
      D2 == Pt(RSub(D.x, rBlend), D.y)
      E1 == Pt(RAdd(E.x, rFixed), E.y)
      E2 == Pt(E.x, RAdd(E.y, rFixed))
      F1 == Pt(F.x, RSub(F.y, rFixed))
      F2 == Pt(RAdd(F.x, rFixed), F.y)
      A1 == Pt(RSub(A.x, rFixed), A.y)
      A2 == Pt(A.x, RSub(A.y, rFixed))
  IN  [rFixed |-> rFixed, rBlend |-> rBlend,
       A |-> A, B |-> B, C |-> C, D |-> D, E |-> E, F |-> F,
       dPath |-> << MoveTo(A2.x, A2.y),
                    LineTo(B1.x, B1.y),
                    ArcTo(rFixed, 0, B2.x, B2.y),
                    LineTo(C1.x, C1.y),
                    ArcTo(rFixed, 0, C2.x, C2.y),
                    LineTo(D1.x, D1.y),
                    ArcTo(rBlend, 1, D2.x, D2.y),
                    LineTo(E1.x, E1.y),
                    ArcTo(rFixed, 0, E2.x, E2.y),
                    LineTo(F1.x, F1.y),
                    ArcTo(rFixed, 0, F2.x, F2.y),
                    LineTo(A1.x, A1.y),
                    ArcTo(rFixed, 0, A2.x, A2.y),
                    ClosePath >>]

\* the left soundboard panel, outside the edge E-F
sideLeftPanel(config, M) ==
  LET soundboardThickness == R(6)
      leftOuterTop    == Pt(RSub(M, soundboardThickness), RAdd(M, config.neckStart))
      leftOuterBottom == Pt(RSub(M, soundboardThickness), RAdd(M, config.overallLenMm))
      leftInnerTop    == Pt(M, RAdd(M, config.neckStart))
      leftInnerBottom == Pt(M, RAdd(M, config.overallLenMm))
  IN  << MoveTo(leftOuterTop.x, leftOuterTop.y),
         LineTo(leftOuterBottom.x, leftOuterBottom.y),
         LineTo(leftInnerBottom.x, leftInnerBottom.y),
         LineTo(leftInnerTop.x, leftInnerTop.y),
         ClosePath >>

\* the right soundboard panel with its chamfered ends
sideRightPanel(config, M) ==
  LET soundboardThickness == R(6)
      vChamfer       == RMul(Frac(15, 100), config.neckStart)
      outerX         == RAdd(M, config.bodyMinDepth)
      innerX         == RAdd(RAdd(M, config.bodyMinDepth), soundboardThickness)
      R_top          == Pt(outerX, RAdd(M, config.neckStart))
      R_bottom       == Pt(outerX, RAdd(M, config.overallLenMm))
      R_top_blend    == Pt(outerX, RAdd(RAdd(M, config.neckStart), vChamfer))
      R_bottom_blend == Pt(outerX, RSub(RAdd(M, config.overallLenMm), vChamfer))
      I_top          == Pt(innerX, RAdd(M, config.neckStart))
      I_bottom       == Pt(innerX, RAdd(M, config.overallLenMm))
      I_top_blend    == Pt(innerX, RAdd(RAdd(M, config.neckStart), vChamfer))
      I_bottom_blend == Pt(innerX, RSub(RAdd(M, config.overallLenMm), vChamfer))
  IN  << MoveTo(R_top.x, R_top.y),
         LineTo(R_top_blend.x, R_top_blend.y),
         LineTo(R_bottom_blend.x, R_bottom_blend.y),
         LineTo(R_bottom.x, R_bottom.y),
         LineTo(I_bottom.x, I_bottom.y),
         LineTo(I_bottom_blend.x, I_bottom_blend.y),
         LineTo(I_top_blend.x, I_top_blend.y),
         LineTo(I_top.x, I_top.y),
         LineTo(R_top.x, R_top.y),
         ClosePath >>

\* faulty variant: the bridge centre a whole cutOutTop below the scale length
sideBridge_offset(config, totalMargin) ==
  LET soundboardThickness  == R(6)
      topRightX            == RAdd(totalMargin, config.bodyMinDepth)
      bridgeVerticalCenter == RAdd(RAdd(totalMargin, config.scaleMm),
                                   config.cutOutTop)
  IN  [x |-> RAdd(topRightX, soundboardThickness),
       y |-> RSub(bridgeVerticalCenter, Frac(5, 2)),
       width |-> R(30), height |-> R(5)]

\* the bridge element, outside the right soundboard panel
sideBridge(config, totalMargin) ==
  LET soundboardThickness  == R(6)
      topRightX            == RAdd(totalMargin, config.bodyMinDepth)
      bridgeVerticalCenter == RAdd(RAdd(totalMargin, config.scaleMm),
                                   RDiv(config.cutOutTop, R(2)))
  IN  [x |-> RAdd(topRightX, soundboardThickness),
       y |-> RSub(bridgeVerticalCenter, Frac(5, 2)),
       width |-> R(30), height |-> R(5)]

drawTalharpaSideSVG(config) ==
  LET totalMargin   == R(drawingMargin + extraMargin)
      viewBoxWidth  == RAdd(config.bodyMinDepth, RMul(totalMargin, R(2)))
      viewBoxHeight == RAdd(config.overallLenMm, RMul(totalMargin, R(2)))
      M             == totalMargin
  IN  [view |-> "side",
       viewBox |-> << R(0), R(0), viewBoxWidth, viewBoxHeight >>,
       outline |-> sideBodyOutline(config, M),
       leftPanel |-> sideLeftPanel(config, M),
       rightPanel |-> sideRightPanel(config, M),
       bridge |-> sideBridge(config, totalMargin),
       config |-> config]

----------------------------------------------------------------------------
(* drawFrame.js: drawTalharpaFrameSVG(config) *)

\* faulty variant: a top corner factor of 0.1, drifted from the front view's
frameBodyOutline_factor(config, totalMargin, topMidX) ==
  LET topY         == totalMargin
      bottomY      == RAdd(totalMargin, config.overallLenMm)
      topLeftX     == RSub(topMidX, RDiv(config.headstockWidth, R(2)))
      topRightX    == RAdd(topMidX, RDiv(config.headstockWidth, R(2)))
      bottomLeftX  == RSub(topMidX, RDiv(config.bodyMinWidth, R(2)))
      bottomRightX == RAdd(topMidX, RDiv(config.bodyMinWidth, R(2)))
      rTop         == RMul(Frac(1, 10), config.headstockWidth)
      rBottom      == RMul(Frac(2, 10), config.bodyMinWidth)
      startX       == RAdd(topLeftX, rTop)
  IN  [rTop |-> rTop, rBottom |-> rBottom,
       topLeftX |-> topLeftX, topRightX |-> topRightX,
       bottomLeftX |-> bottomLeftX, bottomRightX |-> bottomRightX,
       d |-> << MoveTo(startX, topY),
                LineTo(RSub(topRightX, rTop), topY),
                ArcTo(rTop, 1, topRightX, RAdd(topY, rTop)),
                LineTo(bottomRightX, RSub(bottomY, rBottom)),
                ArcTo(rBottom, 1, RSub(bottomRightX, rBottom), bottomY),
                LineTo(RAdd(bottomLeftX, rBottom), bottomY),
                ArcTo(rBottom, 1, bottomLeftX, RSub(bottomY, rBottom)),
                LineTo(topLeftX, RAdd(topY, rTop)),
                ArcTo(rTop, 1, startX, topY),
                ClosePath >>]

\* the main instrument outline; the corner factors are the literals 0.08
\* and 0.2 here, not the config's rTopFactor and rBottomFactor
frameBodyOutline(config, totalMargin, topMidX) ==
  LET topY         == totalMargin
      bottomY      == RAdd(totalMargin, config.overallLenMm)
      topLeftX     == RSub(topMidX, RDiv(config.headstockWidth, R(2)))
      topRightX    == RAdd(topMidX, RDiv(config.headstockWidth, R(2)))
      bottomLeftX  == RSub(topMidX, RDiv(config.bodyMinWidth, R(2)))
      bottomRightX == RAdd(topMidX, RDiv(config.bodyMinWidth, R(2)))
      rTop         == RMul(Frac(8, 100), config.headstockWidth)
      rBottom      == RMul(Frac(2, 10), config.bodyMinWidth)
      startX       == RAdd(topLeftX, rTop)
  IN  [rTop |-> rTop, rBottom |-> rBottom,
       topLeftX |-> topLeftX, topRightX |-> topRightX,
       bottomLeftX |-> bottomLeftX, bottomRightX |-> bottomRightX,
       d |-> << MoveTo(startX, topY),
                LineTo(RSub(topRightX, rTop), topY),
                ArcTo(rTop, 1, topRightX, RAdd(topY, rTop)),
                LineTo(bottomRightX, RSub(bottomY, rBottom)),
                ArcTo(rBottom, 1, RSub(bottomRightX, rBottom), bottomY),
                LineTo(RAdd(bottomLeftX, rBottom), bottomY),
                ArcTo(rBottom, 1, bottomLeftX, RSub(bottomY, rBottom)),
                LineTo(topLeftX, RAdd(topY, rTop)),
                ArcTo(rTop, 1, startX, topY),
                ClosePath >>]

\* the lower inset (cut-out) of the frame: 7 mm in from the sides, 18 mm up
\* from the bottom, its top at the neck start
frameInset(config) ==
  LET totalMargin  == R(drawingMargin + extraMargin)
      maxBodyWidth == MathMax(config.headstockWidth, config.bodyMinWidth)
      topY         == totalMargin
      bottomY      == RAdd(totalMargin, config.overallLenMm)
      topMidX      == RAdd(totalMargin, RDiv(maxBodyWidth, R(2)))
      rBottom      == RMul(Frac(2, 10), config.bodyMinWidth)
      insideOffsetSide   == R(7)
      insideOffsetBottom == R(18)
      insideTopY    == RAdd(topY, config.neckStart)
      insideBottomY == RSub(bottomY, insideOffsetBottom)
      W_neck   == RAdd(config.headstockWidth,
                       RMul(RSub(config.bodyMinWidth, config.headstockWidth),
                            RDiv(config.neckStart, config.overallLenMm)))
      W_bottom == config.bodyMinWidth
      insideTopWidth    == MathMax(RSub(W_neck, RMul(R(2), insideOffsetSide)), R(0))
      insideBottomWidth == MathMax(RSub(W_bottom, RMul(R(2), insideOffsetSide)), R(0))
      rInsideBottom ==
        MathMax(RSub(rBottom, MathMin(insideOffsetSide, insideOffsetBottom)), R(0))
      insideTopMidX      == topMidX
      insideTopLeftX     == RSub(insideTopMidX, RDiv(insideTopWidth, R(2)))
      insideTopRightX    == RAdd(insideTopMidX, RDiv(insideTopWidth, R(2)))
      insideBottomLeftX  == RSub(insideTopMidX, RDiv(insideBottomWidth, R(2)))
      insideBottomRightX == RAdd(insideTopMidX, RDiv(insideBottomWidth, R(2)))
  IN  [W_neck |-> W_neck, insideTopWidth |-> insideTopWidth,
       insideBottomWidth |-> insideBottomWidth, rInsideBottom |-> rInsideBottom,
       insideTopY |-> insideTopY, insideBottomY |-> insideBottomY,
       insideTopLeftX |-> insideTopLeftX, insideTopRightX |-> insideTopRightX,
       insideBottomLeftX |-> insideBottomLeftX,
       insideBottomRightX |-> insideBottomRightX,
       dCut |-> << MoveTo(insideTopLeftX, insideTopY),
                   LineTo(insideTopRightX, insideTopY),
                   LineTo(insideBottomRightX, RSub(insideBottomY, rInsideBottom)),
                   ArcTo(rInsideBottom, 1, RSub(insideBottomRightX, rInsideBottom),
                         insideBottomY),
                   LineTo(RAdd(insideBottomLeftX, rInsideBottom), insideBottomY),
                   ArcTo(rInsideBottom, 1, insideBottomLeftX,
                         RSub(insideBottomY, rInsideBottom)),
                   LineTo(insideTopLeftX, insideTopY),
                   ClosePath >>]

\* The element is carried as its outline and the config it was drawn from.
\* The inset's width at the neck start involves the quotient
\* neckStart / overallLenMm, whose exact value needs more than 32 bits at
\* most grid points; the inset is the operator frameInset of the element's
\* config, evaluated at the scale lengths of FrameScaleValues.
drawTalharpaFrameSVG(config) ==
  LET totalMargin   == R(drawingMargin + extraMargin)
      maxBodyWidth  == MathMax(config.headstockWidth, config.bodyMinWidth)
      viewBoxWidth  == RAdd(maxBodyWidth, RMul(totalMargin, R(2)))
      viewBoxHeight == RAdd(config.overallLenMm, RMul(totalMargin, R(2)))
      topY          == totalMargin
      bottomY       == RAdd(totalMargin, config.overallLenMm)
      topMidX       == RAdd(totalMargin, RDiv(maxBodyWidth, R(2)))
  IN  [view |-> "frame",
       viewBox |-> << R(0), R(0), viewBoxWidth, viewBoxHeight >>,
       topY |-> topY, bottomY |-> bottomY, topMidX |-> topMidX,
       outline |-> frameBodyOutline(config, totalMargin, topMidX),
       config |-> config]

----------------------------------------------------------------------------
(* main.js: the tuning calculator *)

\* patternOptions; a pattern string is carried as the sequence of its digits
patternOptions(n) ==
  CASE n = 2 -> << <<1,5>>, <<5,1>>, <<1,4>>, <<4,1>>, <<1,1>>, <<5,5>>, <<4,4>> >>
    [] n = 3 -> << <<1,5,1>>, <<5,1,5>>, <<1,4,1>>, <<4,1,4>>, <<1,1,5>>,
                   <<1,5,5>>, <<1,4,4>> >>
    [] n = 4 -> << <<1,5,1,5>>, <<5,1,5,1>>, <<1,4,1,4>>, <<4,1,4,1>>,
                   <<1,1,5,5>>, <<1,1,4,4>> >>
    [] OTHER -> << >>

\* noteFrequencies C1..C6 in hundredths of a hertz, in key order (the table
\* holds natural notes only, so mainNotes is the whole table)
noteFrequencies ==
  << 3270, 3671, 4120, 4365, 4900, 5500, 6174,
     6541, 7342, 8241, 8731, 9800, 11000, 12347,
     13081, 14683, 16481, 17461, 19600, 22000, 24694,
     26163, 29366, 32963, 34923, 39200, 44000, 49388,
     52325, 58733, 65925, 69846, 78399, 88000, 98777,
     104650 >>

\* getFeasibleRange(scaleLength), in hundredths of a hertz
getFeasibleRange(scaleCm) ==
  IF RLt(scaleCm, R(33)) THEN << 22000, 33000 >>
  ELSE IF RLt(scaleCm, Frac(375, 10)) THEN << 19600, 33000 >>
  ELSE IF RLt(scaleCm, R(40)) THEN << 14683, 33000 >>
  ELSE IF RLt(scaleCm, Frac(546, 10)) THEN << 9800, 33000 >>
  ELSE << 6541, 22000 >>

\* parseIntervalPattern(pattern): '1' is 0, '4' is 5, '5' is 7 semitones,
\* plus 12 for every earlier occurrence of the same digit
parseIntervalPattern(pattern) ==
  [i \in 1..Len(pattern) |->
     (CASE pattern[i] = 1 -> 0 [] pattern[i] = 4 -> 5 [] pattern[i] = 5 -> 7)
     + 12 * Cardinality({j \in 1..(i - 1) : pattern[j] = pattern[i]})]

\* Math.pow(2, k/12) for k in 0..11, in millionths
semitoneRatio ==
  << 1000000, 1059463, 1122462, 1189207, 1259921, 1334840,
     1414214, 1498307, 1587401, 1681793, 1781797, 1887749 >>

\* rootFreq * Math.pow(2, off/12) in units of 1e-5 Hz, rounded down; the
\* product is taken in two halves to stay within 32 bits
stringFreq(rootFreq, off) ==
  LET r  == semitoneRatio[(off % 12) + 1] * (IF off >= 12 THEN 2 ELSE 1)
      rh == r \div 1000
      rl == r % 1000
  IN  rootFreq * rh + ((rootFreq * rl) \div 1000)

\* freq >= fMin && freq <= fMax.  A root above 330 Hz is above every fMax,
\* and so is each of its strings (offsets are >= 0).
inFeasibleRange(rootFreq, off, range) ==
  /\ rootFreq <= 33000
  /\ stringFreq(rootFreq, off) >= range[1] * 1000
  /\ stringFreq(rootFreq, off) <= range[2] * 1000

\* the main note nearest to a frequency f (units of 1e-5 Hz), the first one
\* on a tie (the code's scan keeps a note only when d < bestDiff).  The
\* table ascends, so the nearest note is the last one not above f or the
\* one after it.
noteDiff(i, f) == Abs(noteFrequencies[i] * 1000 - f)
nearestNote(f) ==
  LET lo == Cardinality({i \in 1..Len(noteFrequencies) :
                           noteFrequencies[i] * 1000 <= f})
  IN  IF lo = 0 THEN 1
      ELSE IF lo = Len(noteFrequencies) THEN lo
      ELSE IF noteDiff(lo + 1, f) < noteDiff(lo, f) THEN lo + 1 ELSE lo

\* Math.ceil(n / rangeFactor), rangeFactor 1.2 above 39 cm and 1.75 otherwise
neededInRange(scaleCm, n) ==
  LET q == IF RGt(scaleCm, R(39)) THEN Frac(n * 10, 12) ELSE Frac(n * 100, 175)
  IN  -Floor(RNeg(q))

\* generateFeasibleTunings(scaleLength, intervals): one tuning per feasible
\* root note, each the sequence of its strings' nearest main notes (indices
\* into noteFrequencies)
generateFeasibleTunings(scaleCm, intervals) ==
  LET range == getFeasibleRange(scaleCm)
      n     == Len(intervals)
      inRangeCount(root) ==
        Cardinality({k \in 1..n :
                       inFeasibleRange(noteFrequencies[root], intervals[k], range)})
      keep(root) == inRangeCount(root) >= neededInRange(scaleCm, n)
      notes(root) ==
        [k \in 1..n |-> nearestNote(stringFreq(noteFrequencies[root], intervals[k]))]
  IN  SelectSeq([root \in 1..Len(noteFrequencies) |->
                   IF keep(root) THEN notes(root) ELSE << 0 >>],
                LAMBDA t : t # << 0 >>)

----------------------------------------------------------------------------
(* The page: form controls, output tables and drawing containers *)

VARIABLES
  scaleLength,        \* #scaleLength after parseFloat
  numStrings,         \* #numStrings, the selected value
  patternOpts,        \* #pattern, its options
  pattern,            \* #pattern, index of the selected option (0: none)
  tuningOpts,         \* #finalTuning, its options' values
  finalTuning,        \* #finalTuning, index of the selected option (0: none)
  stringTable,        \* #stringTable tbody rows
  critTable,          \* #criticalDimensionsTable tbody rows
  frontContainer,     \* #talharpaContainer children
  sideContainer,      \* #talharpaSideContainer children
  frameContainer,     \* #talharpaFrameContainer children
  noteDistanceTable,  \* #noteDistanceTable children
  printOutShown,      \* #designPrintOut and #savePdfButton displayed
  notification,       \* the UIkit notification the last handler raised
  lastEvent,          \* the handler that ran last
  derived,            \* locals of the last generateCriticalDimensions run
  request             \* a direct call of buildCriticalDimensionsTable

inputs  == << scaleLength, numStrings, patternOpts, pattern, tuningOpts,
              finalTuning >>
outputs == << stringTable, critTable, frontContainer, sideContainer,
              frameContainer, noteDistanceTable, printOutShown, derived >>
vars    == << scaleLength, numStrings, patternOpts, pattern, tuningOpts,
              finalTuning, stringTable, critTable, frontContainer,
              sideContainer, frameContainer, noteDistanceTable,
              printOutShown, notification, lastEvent, derived, request >>

\* Bounds of the model
MaxPatternChoice == 2   \* the user picks among the first so many patterns
MaxTuningChoice == 2    \* ... and among the first so many tunings
MaxStrings == 8         \* numStrings of a direct call ranges over 1..MaxStrings

\* scale lengths typed into the form (hundredths of a centimetre): below
\* the range, at its lower limit, inside it and above it; an empty or
\* unparsable field reads as NaN
FormScaleValues == { NaN, Num(2590), Num(2600), Num(4500), Num(7010) }

\* scale lengths of direct calls: every whole centimetre of [26,70] and the
\* grid points next to it, the half centimetres and the points around the
\* depth clamp at 58.33 cm.  Between 40 and 56 cm the overall length is a
\* quadratic in the scale length (denominator 1600000 on the 0.1 mm grid);
\* there the samples are whole millimetres, where every coordinate of the
\* views fits the model checker's integers.
SampleOffsets == { -10, -1, 0, 1, 10, 33, 34, 49, 50, 51 }
DimScaleValues ==
  { v \in { c * 100 + o : c \in 26..70, o \in SampleOffsets } :
      /\ v >= 2600 /\ v <= 7000
      /\ (v <= 4000 \/ v >= 5600 \/ v % 10 = 0) }

\* scale lengths at which the frame's inset is evaluated: the whole
\* centimetres at which its coordinates fit the model checker's integers
FrameScaleValues ==
  { c * 100 : c \in (26..40) \cup { 42, 45, 48, 50, 51, 52, 54 } \cup (56..70) }

\* an option value of #finalTuning: '' or the JSON text of a tuning
EmptyValue == [json |-> FALSE, notes |-> << >>]
TuningValue(t) == [json |-> TRUE, notes |-> t]

patternValue == IF pattern = 0 THEN << >> ELSE patternOpts[pattern]
finalTuningVal == IF finalTuning = 0 THEN EmptyValue ELSE tuningOpts[finalTuning]

NoDerived == [valid |-> FALSE]
NoRequest == [pending |-> FALSE]

\* populatePatternDropdown(): the options for numStrings n; a rebuilt select
\* shows its first option
populatePatternDropdown(n) ==
  [opts |-> patternOptions(n),
   sel  |-> IF Len(patternOptions(n)) = 0 THEN 0 ELSE 1]

\* updateRecommendedTunings() for scale length s and pattern p: the new
\* options of #finalTuning, the selected index and the notification raised
updateRecommendedTunings(s, p) ==
  IF ~validateScaleLength(s)
  THEN [opts |-> tuningOpts, sel |-> finalTuning, note |-> "scale"]
  ELSE LET tunings == generateFeasibleTunings(CmOf(s), parseIntervalPattern(p))
       IN  IF Len(tunings) = 0
           THEN [opts |-> << EmptyValue >>, sel |-> 1, note |-> "none"]
           ELSE [opts |-> [i \in 1..Len(tunings) |-> TuningValue(tunings[i])],
                 sel |-> 1, note |-> "none"]

\* getGutRecommendation / getHorseHairRecommendation / getStringRecommendations
\* for a note's frequency f (hundredths of a hertz)
getGutRecommendation(f) ==
  IF f >= 33000 THEN "Thin (~0.6 mm)"
  ELSE IF f >= 22000 THEN "Medium (~0.8 mm)" ELSE "Thick (1.0+ mm)"
getHorseHairRecommendation(f) ==
  IF f >= 33000 THEN "~30 strands"
  ELSE IF f >= 22000 THEN "~40 strands" ELSE "~60+ strands"
getStringRecommendations(f) ==
  IF f >= 33000 THEN "4-5 strands"
  ELSE IF f >= 26000 THEN "5-6 strands"
  ELSE IF f >= 22000 THEN "6-8 strands"
  ELSE IF f >= 13000 THEN "8-12 strands" ELSE "12+ strands"

Reverse(q) == [i \in 1..Len(q) |-> q[Len(q) + 1 - i]]

StringRows(reversedStrings) ==
  [idx \in 1..Len(reversedStrings) |->
     LET f == noteFrequencies[reversedStrings[idx]]
     IN  [idx |-> idx, note |-> reversedStrings[idx],
          gut |-> getGutRecommendation(f), hair |-> getHorseHairRecommendation(f),
          dacron |-> getStringRecommendations(f)]]

\* buildCriticalDimensionsTable(scaleCm, n): generateCriticalDimensions
\* derives the dimensions, draws the three views into their containers
\* (the frame container also gets the build notes), shows the print-out
\* section and returns the rows that replace the table body
\* faulty variant: the new child appended to the children already there
replaceChildren_keep(children, el) == Append(children, el)

\* container.innerHTML = ''; container.appendChild(el)
replaceChildren(children, el) == Append(<< >>, el)

buildCriticalDimensionsTable(scaleCm, n) ==
  LET L      == DeriveDimensions(scaleCm, n)
      config == ConfigOf(L)
  IN  /\ derived' = [valid |-> TRUE, L |-> L]
      /\ frontContainer' = replaceChildren(frontContainer, drawTalharpaSVG(config))
      /\ sideContainer' = replaceChildren(sideContainer, drawTalharpaSideSVG(config))
      /\ frameContainer' =
           Append(replaceChildren(frameContainer, drawTalharpaFrameSVG(config)),
                  [view |-> "notes"])
      /\ printOutShown' = TRUE
      /\ critTable' = DimsArray(L)

\* calculateStrings(): the click handler of #calculateBtn
calculateStrings ==
  IF ~validateScaleLength(scaleLength)
  THEN /\ notification' = "scale"
       /\ UNCHANGED outputs
  ELSE IF ~finalTuningVal.json
  THEN /\ notification' = "tuning"
       /\ UNCHANGED outputs
  ELSE LET reversedStrings == Reverse(finalTuningVal.notes)
       IN  /\ notification' = "none"
           /\ stringTable' = StringRows(reversedStrings)
           /\ buildCriticalDimensionsTable(CmOf(scaleLength), Len(reversedStrings))
           /\ noteDistanceTable' =
                << [scaleLength |-> scaleLength, strings |-> reversedStrings] >>

----------------------------------------------------------------------------
(* The form: state after DOMContentLoaded and one action per event *)

Init ==
  /\ scaleLength = NaN
  /\ numStrings = 3
  /\ patternOpts = populatePatternDropdown(3).opts
  /\ pattern = populatePatternDropdown(3).sel
  /\ tuningOpts = << >>
  /\ finalTuning = 0
  /\ stringTable = << >>
  /\ critTable = << >>
  /\ frontContainer = << >>
  /\ sideContainer = << >>
  /\ frameContainer = << >>
  /\ noteDistanceTable = << >>
  /\ printOutShown = FALSE
  /\ notification = "scale"
  /\ lastEvent = "load"
  /\ derived = NoDerived
  /\ request = NoRequest

\* the tuning list follows from an update u
SetTunings(u) ==
  /\ tuningOpts' = u.opts
  /\ finalTuning' = u.sel
  /\ notification' = u.note

ChangeScaleLength ==
  \E s \in FormScaleValues :
    /\ s # scaleLength
    /\ scaleLength' = s
    /\ SetTunings(updateRecommendedTunings(s, patternValue))
    /\ lastEvent' = "changeScaleLength"
    /\ UNCHANGED << numStrings, patternOpts, pattern, outputs, request >>

\* faulty variant: the numStrings listener without its call of
\* updateRecommendedTunings
ChangeNumStrings_stale ==
  \E n \in { 2, 3, 4 } :
    /\ n # numStrings
    /\ numStrings' = n
    /\ patternOpts' = populatePatternDropdown(n).opts
    /\ pattern' = populatePatternDropdown(n).sel
    /\ lastEvent' = "changeNumStrings"
    /\ UNCHANGED << scaleLength, tuningOpts, finalTuning, notification, outputs,
                    request >>

ChangeNumStrings ==
  \E n \in { 2, 3, 4 } :
    /\ n # numStrings
    /\ numStrings' = n
    /\ patternOpts' = populatePatternDropdown(n).opts
    /\ pattern' = populatePatternDropdown(n).sel
    /\ SetTunings(updateRecommendedTunings(scaleLength,
                    populatePatternDropdown(n).opts[populatePatternDropdown(n).sel]))
    /\ lastEvent' = "changeNumStrings"
    /\ UNCHANGED << scaleLength, outputs, request >>

ChangePattern ==
  \E i \in 1..MaxPatternChoice :
    /\ i <= Len(patternOpts)
    /\ i # pattern
    /\ pattern' = i
    /\ SetTunings(updateRecommendedTunings(scaleLength, patternOpts[i]))
    /\ lastEvent' = "changePattern"
    /\ UNCHANGED << scaleLength, numStrings, patternOpts, outputs, request >>

\* choosing another tuning has no listener
SelectFinalTuning ==
  \E i \in 1..MaxTuningChoice :
    /\ i <= Len(tuningOpts)
    /\ i # finalTuning
    /\ finalTuning' = i
    /\ notification' = "none"
    /\ lastEvent' = "selectFinalTuning"
    /\ UNCHANGED << scaleLength, numStrings, patternOpts, pattern, tuningOpts,
                    outputs, request >>

ClickCalculate ==
  /\ calculateStrings
  /\ lastEvent' = "calculate"
  /\ UNCHANGED << inputs, request >>

Next ==
  \/ ChangeScaleLength
  \/ ChangeNumStrings
  \/ ChangePattern
  \/ SelectFinalTuning
  \/ ClickCalculate

Spec == Init /\ [][Next]_vars

----------------------------------------------------------------------------
(* The dimension derivation called directly: the page as loaded, one call  *)
(* of buildCriticalDimensionsTable(scaleCm, numStrings) pending            *)

InitDims ==
  /\ scaleLength = NaN
  /\ numStrings = 3
  /\ patternOpts = populatePatternDropdown(3).opts
  /\ pattern = populatePatternDropdown(3).sel
  /\ tuningOpts = << >>
  /\ finalTuning = 0
  /\ stringTable = << >>
  /\ critTable = << >>
  /\ frontContainer = << >>
  /\ sideContainer = << >>
  /\ frameContainer = << >>
  /\ noteDistanceTable = << >>
  /\ printOutShown = FALSE
  /\ notification = "scale"
  /\ lastEvent = "load"
  /\ derived = NoDerived
  /\ request \in { [pending |-> TRUE, scaleCm |-> v, numStrings |-> n] :
                     v \in DimScaleValues, n \in 1..MaxStrings }

CallBuildCriticalDimensionsTable ==
  /\ request.pending
  /\ buildCriticalDimensionsTable(Frac(request.scaleCm, 100), request.numStrings)
  /\ request' = [request EXCEPT !.pending = FALSE]
  /\ lastEvent' = "call"
  /\ UNCHANGED << inputs, stringTable, noteDistanceTable, notification >>

NextDims == CallBuildCriticalDimensionsTable

SpecDims == InitDims /\ [][NextDims]_vars

----------------------------------------------------------------------------
(* A direct call with a string count below one: calculateStrings passes    *)
(* the length of the decoded tuning on without a test, so an empty tuning  *)
(* gives buildCriticalDimensionsTable(scaleCm, 0)                          *)

\* the length of a decoded tuning with no strings
RejectedCounts == { 0 }

InitLowCount ==
  /\ scaleLength = NaN
  /\ numStrings = 3
  /\ patternOpts = populatePatternDropdown(3).opts
  /\ pattern = populatePatternDropdown(3).sel
  /\ tuningOpts = << >>
  /\ finalTuning = 0
  /\ stringTable = << >>
  /\ critTable = << >>
  /\ frontContainer = << >>
  /\ sideContainer = << >>
  /\ frameContainer = << >>
  /\ noteDistanceTable = << >>
  /\ printOutShown = FALSE
  /\ notification = "scale"
  /\ lastEvent = "load"
  /\ derived = NoDerived
  /\ request \in { [pending |-> TRUE, scaleCm |-> v, numStrings |-> n] :
                     v \in DimScaleValues, n \in RejectedCounts }

SpecLowCount == InitLowCount /\ [][NextDims]_vars

----------------------------------------------------------------------------
(* Properties.  The expected values are written in integer arithmetic on   *)
(* the scale length in hundredths of a centimetre (Dv), not with the       *)
(* operators that model the code.                                          *)

\* the arguments and locals of the last derivation
DL == derived.L
Dv == (DL.scaleCm[1] * 100) \div DL.scaleCm[2]
Dn == DL.numStrings
FrontSvg == frontContainer[1]

\* 26 <= s <= 70, for a parsed value
InRange(s) == s.kind = "num" /\ s.v >= 2600 /\ s.v <= 7000

ValidationProbes ==
  FormScaleValues \cup { PosInfinity, NegInfinity }
    \cup { Num(v) : v \in { -100, 0, 2599, 2600, 2601, 6999, 7000, 7001, 100000 } }

\* C1: validateScaleLength accepts exactly the scale lengths in [26,70] and
\* rejects NaN, the infinities and every value outside; a click on Calculate
\* with a rejected scale length leaves the string table, the dimension
\* table, the three drawing containers, the note-distance table and the
\* derived dimensions as they were.
C1_RejectedScaleChangesNothing ==
  /\ [](\A s \in ValidationProbes \cup { scaleLength } :
          validateScaleLength(s) <=> InRange(s))
  /\ [][(lastEvent' = "calculate" /\ ~InRange(scaleLength))
          => UNCHANGED outputs]_vars

\* a rejected Calculate after a successful one: the earlier tables and
\* drawings are still there
C1_Witness ==
  /\ lastEvent = "calculate"
  /\ ~InRange(scaleLength)
  /\ notification = "scale"
  /\ Len(critTable) = 17
  /\ Len(stringTable) > 0
  /\ Len(frontContainer) = 1

\* C2: overallLength is scaleCm*1.66*10 up to 40 cm, scaleCm*1.43*10 from
\* 56 cm, and scaleCm*m*10 in between with m interpolated from 1.66 at 40
\* to 1.43 at 56; the interpolated expression gives the outer branches'
\* values at 40 and at 56, and 40 cm gives 664.0 mm.
OverallInterpolated(v) == Frac(v * (357600 - 23 * v), 1600000)
C2_OverallLength ==
  derived.valid =>
    /\ Dv <= 4000 => DL.overallLenMm = Frac(Dv * 166, 1000)
    /\ Dv >= 5600 => DL.overallLenMm = Frac(Dv * 143, 1000)
    /\ (Dv > 4000 /\ Dv < 5600) => DL.overallLenMm = OverallInterpolated(Dv)
    /\ (Dv = 4000 \/ Dv = 5600) => DL.overallLenMm = OverallInterpolated(Dv)
    /\ Dv = 4000 => /\ DL.overallLenMm = R(664)
                    /\ critTable[2].value = [digits |-> 1, text |-> 6640]

C2_Witness ==
  /\ derived.valid
  /\ Dv = 4000
  /\ critTable[2].key = "B"
  /\ critTable[2].value.text = 6640

\* C3: bodyMinWidth is 160 up to 32 cm, interpolated 160..190 over [32,37]
\* and 190..210 over [37,56], 210 from 56 cm; it lies in [160,210], does
\* not decrease as the scale length grows, and is exactly 160, 190 and 210
\* at 32, 37 and 56 cm.
WholeCentimetres == { c * 100 : c \in 26..70 }
C3_BodyMinWidth ==
  derived.valid =>
    /\ Dv <= 3200 => DL.bodyMinWidth = R(160)
    /\ (Dv >= 3200 /\ Dv <= 3700) =>
         DL.bodyMinWidth = Frac(160 * 500 + 30 * (Dv - 3200), 500)
    /\ (Dv >= 3700 /\ Dv <= 5600) =>
         DL.bodyMinWidth = Frac(190 * 1900 + 20 * (Dv - 3700), 1900)
    /\ Dv >= 5600 => DL.bodyMinWidth = R(210)
    /\ RLe(R(160), DL.bodyMinWidth) /\ RLe(DL.bodyMinWidth, R(210))
    /\ \A w \in WholeCentimetres :
         /\ w <= Dv => RLe(calcBodyMinWidth(Frac(w, 100)), DL.bodyMinWidth)
         /\ w >= Dv => RLe(DL.bodyMinWidth, calcBodyMinWidth(Frac(w, 100)))
    /\ Dv = 3200 => DL.bodyMinWidth = R(160)
    /\ Dv = 3700 => DL.bodyMinWidth = R(190)
    /\ Dv = 5600 => DL.bodyMinWidth = R(210)

C3_Witness ==
  /\ derived.valid
  /\ Dv = 3700
  /\ DL.bodyMinWidth = R(190)

\* C4: bridgeWidth is 60 up to 30 cm, 70 from 56 cm and
\* 60 + 10*(scaleCm-30)/26 in between; it lies in [60,70] and is exactly 60
\* at 30 cm and exactly 70 at 56 cm.
C4_BridgeWidth ==
  derived.valid =>
    /\ Dv <= 3000 => DL.rawBridgeWidth = R(60)
    /\ Dv >= 5600 => DL.rawBridgeWidth = R(70)
    /\ (Dv > 3000 /\ Dv < 5600) =>
         DL.rawBridgeWidth = Frac(60 * 2600 + 10 * (Dv - 3000), 2600)
    /\ RLe(R(60), DL.rawBridgeWidth) /\ RLe(DL.rawBridgeWidth, R(70))
    /\ critTable[7].value = toFixed(DL.rawBridgeWidth, 1)

C4_Witness ==
  /\ derived.valid
  /\ Dv = 4300
  /\ DL.rawBridgeWidth = R(65)

\* C5: the bridge spacing (gap) is (bridgeWidth - 24)/(numStrings - 1) for
\* two or more strings and 0 for one string; it is never negative and is a
\* proper number (no division by zero).
C5_BridgeSpacing ==
  derived.valid =>
    /\ Dn >= 2 => RMul(DL.gap, R(Dn - 1)) = RSub(DL.rawBridgeWidth, R(24))
    /\ Dn = 1 => DL.gap = R(0)
    /\ DL.gap[1] >= 0
    /\ DL.gap[2] > 0

C5_Witness ==
  /\ derived.valid
  /\ Dn = 1
  /\ DL.gap = R(0)
  /\ critTable[8].key = "H"
  /\ critTable[8].value.text = 0

\* C6: bodyMinDepth is clamp(0.12 * scaleMm, 45, 70): 45 while
\* 0.12*scaleMm < 45, 70 once 0.12*scaleMm > 70, 0.12*scaleMm otherwise, so
\* it lies in [45,70].  (0.12 * scaleMm is 3*Dv/250.)
C6_BodyMinDepth ==
  derived.valid =>
    /\ 3 * Dv < 45 * 250 => DL.bodyMinDepth = R(45)
    /\ 3 * Dv > 70 * 250 => DL.bodyMinDepth = R(70)
    /\ (3 * Dv >= 45 * 250 /\ 3 * Dv <= 70 * 250) =>
         DL.bodyMinDepth = Frac(3 * Dv, 250)
    /\ RLe(R(45), DL.bodyMinDepth) /\ RLe(DL.bodyMinDepth, R(70))

C6_Witness ==
  /\ derived.valid
  /\ Dv = 5000
  /\ DL.bodyMinDepth = R(60)

\* C7: neckThickness is 35 exactly when scaleMm > 450 and 25 otherwise: 25
\* at 450 mm, 35 at 450.01 mm, and no other value.
C7_NeckThickness ==
  /\ calcNeckThickness(R(450)) = 25
  /\ calcNeckThickness(Frac(45001, 100)) = 35
  /\ derived.valid =>
       /\ Dv > 4500 => DL.neckThickness = R(35)
       /\ Dv <= 4500 => DL.neckThickness = R(25)
       /\ critTable[17].value.text \in { 25, 35 }

C7_Witness ==
  /\ derived.valid
  /\ Dv = 4500
  /\ DL.neckThickness = R(25)
  /\ critTable[17].key = "Q"

\* C8: windowWidth = 36 * numStrings, headstockWidth = windowWidth + 50 and
\* windowLength = 0.5 * scaleMm + 20 with scaleMm = 10 * scaleCm; 40 cm with
\* 3 strings gives windowWidth 108 and headstockWidth 158.
C8_WindowAndHeadstock ==
  derived.valid =>
    /\ DL.scaleMm = Frac(Dv, 10)
    /\ DL.windowWidth = R(36 * Dn)
    /\ DL.headstockWidth = RAdd(DL.windowWidth, R(50))
    /\ DL.windowLength = Frac(Dv + 400, 20)
    /\ (Dv = 4000 /\ Dn = 3) =>
         /\ DL.windowWidth = R(108)
         /\ DL.headstockWidth = R(158)
         /\ FrontSvg.config.windowWidth = R(108)
         /\ FrontSvg.config.headstockWidth = R(158)

C8_Witness ==
  /\ derived.valid
  /\ Dv = 4000
  /\ Dn = 3
  /\ DL.headstockWidth = R(158)

\* C9 as claimed: soundholeCenter is
\* ((scaleMm - windowLength - cutOutTop/2) / k) + windowLength + cutOutTop
\* with k = 1.85 from 350 mm and k = 1.9 below 350 mm.
\* ((Dv - 750)/20 is scaleMm - windowLength - 17.5, (Dv + 1100)/20 is
\* windowLength + 35.)
C9_AsClaimed ==
  derived.valid =>
    /\ Dv >= 3500 => DL.soundHoleCenter = Frac(57 * Dv + 25700, 740)
    /\ Dv < 3500 => DL.soundHoleCenter = Frac(58 * Dv + 26800, 760)

\* C9 (amended): soundholeCenter is
\* ((scaleMm - windowLength - cutOutTop/2) / 1.85) + windowLength + cutOutTop
\* with cutOutTop = 35 for every scale length, below 350 mm as well; the
\* table's row O is that value rounded to a whole millimetre.
C9_SoundholeCenter ==
  derived.valid =>
    /\ DL.soundHoleCenter = Frac(57 * Dv + 25700, 740)
    /\ critTable[15].value = toFixed(Frac(57 * Dv + 25700, 740), 0)

C9_Witness ==
  /\ derived.valid
  /\ Dv = 3000
  /\ critTable[15].key = "O"
  /\ critTable[15].value.text = 266

C11_NeckStart ==
  derived.valid =>
    LET bottomOfWindow == RAdd(DL.windowLength, R(35))
    IN  /\ DL.neckStart = Frac(131 * Dv + 107100, 2220)
        /\ RLt(bottomOfWindow, DL.neckStart)
        /\ RLt(DL.neckStart, DL.soundHoleCenter)
        /\ RMul(R(3), RSub(DL.neckStart, bottomOfWindow))
             = RSub(DL.soundHoleCenter, bottomOfWindow)
        /\ critTable[16].value = toFixed(DL.neckStart, 0)

C11_Witness ==
  /\ derived.valid
  /\ Dv = 4000
  /\ critTable[16].key = "P"
  /\ critTable[16].value.text = 284


\* C12: tailTopWidth = gap * numStrings, tailBottomWidth = 0.7 * tailTopWidth
\* and tailLength = 0.4 * max(0, overallLength - scaleMm); the tailpiece
\* drawn in the front view, which recomputes the three values, has the same
\* top width, bottom width and length as the derivation, whose values the
\* table shows in rows K, L and M rounded to whole millimetres.
C12_TailDimensions ==
  derived.valid =>
    LET diff == RSub(DL.overallLenMm, DL.scaleMm)
        tail == FrontSvg.tail
    IN  /\ DL.tailTopWidth = RMul(DL.gap, R(Dn))
        /\ RMul(R(10), DL.tailBottomWidth) = RMul(R(7), DL.tailTopWidth)
        /\ RMul(R(10), DL.tailLength)
             = RMul(R(4), IF RLt(diff, R(0)) THEN R(0) ELSE diff)
        /\ tail.tailTopWidthVal = DL.tailTopWidth
        /\ tail.tailBottomWidth = DL.tailBottomWidth
        /\ tail.tailLengthVal = DL.tailLength
        /\ RSub(tail.tailTopRightX, tail.tailTopLeftX) = DL.tailTopWidth
        /\ RSub(tail.tailBottomRightX, tail.tailBottomLeftX) = DL.tailBottomWidth
        /\ RSub(tail.tailBottomY, tail.tailTopY) = DL.tailLength
        /\ critTable[11].value = toFixed(tail.tailTopWidthVal, 0)
        /\ critTable[12].value = toFixed(tail.tailBottomWidth, 0)
        /\ critTable[13].value = toFixed(tail.tailLengthVal, 0)

C12_Witness ==
  /\ derived.valid
  /\ Dv = 4000
  /\ Dn = 3
  /\ FrontSvg.tail.tailLengthVal = Frac(1056, 10)
  /\ critTable[11].value.text = 60
  /\ critTable[12].value.text = 42
  /\ critTable[13].value.text = 106

\* C13 as claimed: a request whose numStrings is below 1 is rejected before
\* any dimension is computed: once it has been handled there is no derived
\* dimension, no row in the dimension table and no drawing in any of the
\* three containers.
C13_LowCountRejected ==
  (lastEvent = "call" /\ request.numStrings < 1) =>
    /\ ~derived.valid
    /\ critTable = << >>
    /\ frontContainer = << >>
    /\ sideContainer = << >>
    /\ frameContainer = << >>
    /\ ~printOutShown

SideSvg == sideContainer[1]
FrameSvg == frameContainer[1]

\* the point a path command ends on, and the closure of a path: the point
\* of the command before the closing Z is the point of the opening M
EndPoint(cmd) == << cmd.x, cmd.y >>
ClosesOnStart(d) ==
  /\ Len(d) >= 3
  /\ d[1].op = "M"
  /\ d[Len(d)].op = "Z"
  /\ EndPoint(d[Len(d) - 1]) = EndPoint(d[1])

\* C14 as claimed: every closed outline path of the three views (front body
\* outline, tailpiece, side body outline, left and right soundboard panels,
\* frame inset) ends, before its closing Z, on the point its M started from.
C14_ClosureInvariant ==
  derived.valid =>
    /\ ClosesOnStart(FrontSvg.outline.d)
    /\ ClosesOnStart(FrontSvg.tail.d)
    /\ ClosesOnStart(SideSvg.outline.dPath)
    /\ ClosesOnStart(SideSvg.leftPanel)
    /\ ClosesOnStart(SideSvg.rightPanel)
    /\ (Dv \in FrameScaleValues => ClosesOnStart(frameInset(FrameSvg.config).dCut))

\* the paths other than the left soundboard panel do close on their start;
\* the left panel ends 6 mm (the soundboard thickness) to the right of it
C14_OtherPathsClose ==
  derived.valid =>
    /\ ClosesOnStart(FrontSvg.outline.d)
    /\ ClosesOnStart(FrontSvg.tail.d)
    /\ ClosesOnStart(SideSvg.outline.dPath)
    /\ ClosesOnStart(SideSvg.rightPanel)
    /\ ClosesOnStart(FrameSvg.outline.d)
    /\ (Dv \in FrameScaleValues => ClosesOnStart(frameInset(FrameSvg.config).dCut))
    /\ LET d == SideSvg.leftPanel
       IN  /\ d[Len(d)].op = "Z"
           /\ d[Len(d) - 1].y = d[1].y
           /\ RSub(d[Len(d) - 1].x, d[1].x) = R(6)

\* a corner radius r fits an axis-parallel edge running from coordinate a to
\* coordinate b when it is at most half the edge's length
FitsEdge(r, a, b) ==
  LET len == IF RLt(b, a) THEN RSub(a, b) ELSE RSub(b, a)
  IN  RLe(RMul(R(2), r), len)

\* the horizontal edges of the front body outline
C15_FrontBody ==
  LET o == FrontSvg.outline
  IN  /\ FitsEdge(o.rTop, o.topLeftX, o.topRightX)
      /\ FitsEdge(o.rBottom, o.bottomLeftX, o.bottomRightX)

\* the horizontal edges of the tailpiece
C15_Tailpiece ==
  LET t == FrontSvg.tail
  IN  /\ FitsEdge(t.tailRadiusVal, t.tailTopLeftX, t.tailTopRightX)
      /\ FitsEdge(t.tailRadiusVal, t.tailBottomLeftX, t.tailBottomRightX)

\* the six corners of the side body outline, whose edges are all
\* axis-parallel: A-B, B-C, C-D, D-E, E-F, F-A
C15_SideBody ==
  LET o == SideSvg.outline
      AB(r) == FitsEdge(r, o.A.y, o.B.y)
      BC(r) == FitsEdge(r, o.B.x, o.C.x)
      CD(r) == FitsEdge(r, o.C.y, o.D.y)
      DE(r) == FitsEdge(r, o.D.x, o.E.x)
      EF(r) == FitsEdge(r, o.E.y, o.F.y)
      FA(r) == FitsEdge(r, o.F.x, o.A.x)
  IN  /\ FA(o.rFixed) /\ AB(o.rFixed)
      /\ AB(o.rFixed) /\ BC(o.rFixed)
      /\ BC(o.rFixed) /\ CD(o.rFixed)
      /\ CD(o.rBlend) /\ DE(o.rBlend)
      /\ DE(o.rFixed) /\ EF(o.rFixed)
      /\ EF(o.rFixed) /\ FA(o.rFixed)

\* the bottom edge of the frame inset
C15_FrameInset ==
  Dv \in FrameScaleValues =>
    LET i == frameInset(FrameSvg.config)
    IN  FitsEdge(i.rInsideBottom, i.insideBottomLeftX, i.insideBottomRightX)

\* C15 as claimed, for the edges that run along an axis: at every rounded
\* corner drawn (front body, tailpiece, side body, frame inset) the radius
\* used is at most half the length of each such edge meeting at the corner.
C15_RadiusWithinHalfEdge ==
  derived.valid =>
    /\ C15_FrontBody
    /\ C15_Tailpiece
    /\ C15_SideBody
    /\ C15_FrameInset

\* the bound does hold of every outline but the tailpiece, and of the
\* tailpiece from two strings on; with one string the tailpiece is 0 mm wide
\* and its corners are drawn with radius 4 all the same
C15_OnlyTheOneStringTailpiece ==
  derived.valid =>
    /\ C15_FrontBody
    /\ C15_SideBody
    /\ C15_FrameInset
    /\ (Dn >= 2 => C15_Tailpiece)
    /\ (Dn = 1 => /\ FrontSvg.tail.tailTopWidthVal = R(0)
                  /\ FrontSvg.tail.tailRadiusVal = R(4)
                  /\ FrontSvg.tail.d[3].r = R(4))

\* the sum of a sequence of numbers
RECURSIVE RSum(_)
RSum(xs) == IF xs = << >> THEN R(0) ELSE RAdd(xs[1], RSum(Tail(xs)))

\* C16: in the front view the peg-hole, bridge-anchor and tail-hole position
\* arrays each have exactly numStrings elements, and the mean x-coordinate of
\* each array (its sum divided by its length) is the body's horizontal
\* centre topMidX.
C16_AnchorArrays ==
  derived.valid =>
    LET pegs    == FrontSvg.pegs.pegHolePositions
        anchors == FrontSvg.anchorXPositions
        holes   == FrontSvg.tailHoles.tailHolePositions
        centre  == RAdd(R(drawingMargin + extraMargin),
                        RDiv(MathMax(DL.headstockWidth, DL.bodyMinWidth), R(2)))
    IN  /\ FrontSvg.topMidX = centre
        /\ Len(pegs) = Dn
        /\ Len(anchors) = Dn
        /\ Len(holes) = Dn
        /\ RDiv(RSum(pegs), R(Len(pegs))) = centre
        /\ RDiv(RSum(anchors), R(Len(anchors))) = centre
        /\ RDiv(RSum(holes), R(Len(holes))) = centre

C16_Witness ==
  /\ derived.valid
  /\ Dv = 4000
  /\ Dn = 3
  /\ Len(FrontSvg.tailHoles.tailHolePositions) = 3
  /\ FrontSvg.pegs.pegHolePositions[2] = FrontSvg.topMidX
  /\ FrontSvg.anchorXPositions[2] = FrontSvg.topMidX
  /\ FrontSvg.tailHoles.tailHolePositions[2] = FrontSvg.topMidX
  /\ RLt(FrontSvg.tailHoles.tailHolePositions[1], FrontSvg.topMidX)

\* C17: the peg holes are numStrings points whose consecutive x-coordinates
\* are exactly pegSpacing = 36 mm apart, placed symmetrically about the body
\* centre (a single hole sits on the centre), all on one horizontal line
\* 17.5 mm (cutOutTop / 2) below the instrument top whatever the scale
\* length and the number of strings.
C17_PegHoles ==
  derived.valid =>
    LET pegs == FrontSvg.pegs.pegHolePositions
        mid  == FrontSvg.topMidX
    IN  /\ Len(pegs) = Dn
        /\ \A i \in 1..(Dn - 1) : RSub(pegs[i + 1], pegs[i]) = R(36)
        /\ \A i \in 1..Dn :
             RSub(mid, pegs[i]) = RSub(pegs[Dn + 1 - i], mid)
        /\ (Dn = 1 => pegs = << mid >>)
        /\ RSub(FrontSvg.pegs.cy, FrontSvg.topY) = Frac(175, 10)
        /\ RMul(R(2), RSub(FrontSvg.pegs.cy, FrontSvg.topY)) = R(cutOutTop)
        /\ FrontSvg.config.pegSpacing = R(36)

C17_Witness ==
  /\ derived.valid
  /\ Dv = 2600
  /\ Dn = 4
  /\ FrontSvg.pegs.pegHolePositions[1] = RSub(FrontSvg.topMidX, R(54))
  /\ FrontSvg.pegs.pegHolePositions[4] = RAdd(FrontSvg.topMidX, R(54))
  /\ FrontSvg.pegs.cy = Frac(775, 10)

\* C18: the bridge anchors are numStrings points exactly gap apart and
\* symmetric about the centre of the bridge rectangle; from two strings on
\* the first and last anchors lie exactly 12 mm inside the left and right
\* ends of the bridge, and every anchor lies within the bridge width.
C18_BridgeAnchors ==
  derived.valid =>
    LET anchors == FrontSvg.anchorXPositions
        left    == FrontSvg.bridge.x
        right   == RAdd(FrontSvg.bridge.x, FrontSvg.bridge.width)
        centre  == RDiv(RAdd(left, right), R(2))
    IN  /\ Len(anchors) = Dn
        /\ FrontSvg.bridge.width = DL.rawBridgeWidth
        /\ \A i \in 1..(Dn - 1) : RSub(anchors[i + 1], anchors[i]) = DL.gap
        /\ \A i \in 1..Dn :
             RSub(centre, anchors[i]) = RSub(anchors[Dn + 1 - i], centre)
        /\ (Dn >= 2 => /\ RSub(anchors[1], left) = R(marginPerSide)
                       /\ RSub(right, anchors[Dn]) = R(marginPerSide)
                       /\ RMul(R(Dn - 1), DL.gap)
                            = RSub(FrontSvg.bridge.width, R(24)))
        /\ \A i \in 1..Dn : RLe(left, anchors[i]) /\ RLe(anchors[i], right)

C18_Witness ==
  /\ derived.valid
  /\ Dv = 4000
  /\ Dn = 4
  /\ RSub(FrontSvg.anchorXPositions[1], FrontSvg.bridge.x) = R(12)
  /\ RSub(FrontSvg.anchorXPositions[2], FrontSvg.anchorXPositions[1]) = DL.gap
  /\ RGt(DL.gap, R(0))

\* C19: with one string there is a single tail hole at the midpoint of the
\* tailpiece's top edge; otherwise hole i (i = 1..numStrings) is at
\* tailTopLeftX + i * tailTopWidth / (numStrings + 1), so the holes are
\* equally spaced with a margin of one spacing at both ends and lie strictly
\* between the ends of the top edge; all holes are 13 mm below the
\* tailpiece's top.
C19_TailHoles ==
  derived.valid =>
    LET holes == FrontSvg.tailHoles.tailHolePositions
        left  == FrontSvg.tail.tailTopLeftX
        right == FrontSvg.tail.tailTopRightX
        width == DL.tailTopWidth
    IN  /\ Len(holes) = Dn
        /\ RSub(right, left) = width
        /\ RSub(FrontSvg.tailHoles.cy, FrontSvg.tail.tailTopY) = R(13)
        /\ (Dn = 1 => RMul(R(2), holes[1]) = RAdd(left, right))
        /\ (Dn >= 2 =>
              /\ \A i \in 1..Dn :
                   /\ RMul(R(Dn + 1), RSub(holes[i], left)) = RMul(R(i), width)
                   /\ RLt(left, holes[i])
                   /\ RLt(holes[i], right)
              /\ \A i \in 1..(Dn - 1) :
                   RSub(holes[i + 1], holes[i]) = RSub(holes[1], left)
              /\ RSub(right, holes[Dn]) = RSub(holes[1], left))

C19_Witness ==
  /\ derived.valid
  /\ Dv = 4000
  /\ Dn = 3
  /\ RGt(DL.tailTopWidth, R(0))
  /\ critTable[11].value.text = 60
  /\ RMul(R(4), RSub(FrontSvg.tailHoles.tailHolePositions[1],
                     FrontSvg.tail.tailTopLeftX)) = DL.tailTopWidth
  /\ RMul(R(4), RSub(FrontSvg.tail.tailTopRightX,
                     FrontSvg.tailHoles.tailHolePositions[3])) = DL.tailTopWidth

\* the positions of the arc commands of a path
ArcIndices(d) == { i \in 1..Len(d) : d[i].op = "A" }

\* C20: the side view's body outline has exactly six rounded corners; exactly
\* one of them, the neck join at D, uses the radius
\* rBlend = (bodyMinDepth - neckThickness) / 2 and sweep flag 1, and the five
\* others use rFixed = 3 and sweep flag 0.  The blend arc starts rBlend above
\* D on the vertical edge C-D and ends rBlend to the left of D on the
\* horizontal edge D-E.
C20_SideBlendJoint ==
  derived.valid =>
    LET d      == SideSvg.outline.dPath
        M      == R(drawingMargin + extraMargin)
        Dx     == RSub(RAdd(M, DL.bodyMinDepth), DL.neckThickness)
        Dy     == RAdd(M, DL.neckStart)
        blend  == { i \in ArcIndices(d) : d[i].sweep = 1 }
        rBlend == RDiv(RSub(DL.bodyMinDepth, DL.neckThickness), R(2))
    IN  /\ Cardinality(ArcIndices(d)) = 6
        /\ Cardinality(blend) = 1
        /\ \A i \in blend :
             /\ d[i].r = rBlend
             /\ d[i - 1].op = "L"
             /\ d[i - 1].x = Dx
             /\ d[i - 1].y = RSub(Dy, rBlend)
             /\ d[i].x = RSub(Dx, rBlend)
             /\ d[i].y = Dy
             \* both ends lie on the edges meeting at D
             /\ RLe(M, d[i - 1].y)
             /\ RLe(M, d[i].x)
        /\ \A i \in ArcIndices(d) \ blend :
             /\ d[i].r = R(3)
             /\ d[i].sweep = 0
        /\ SideSvg.outline.D = Pt(Dx, Dy)

C20_Witness ==
  /\ derived.valid
  /\ Dv = 4000
  /\ SideSvg.outline.dPath[7].op = "A"
  /\ SideSvg.outline.dPath[7].sweep = 1
  /\ SideSvg.outline.dPath[7].r = SideSvg.outline.rBlend
  /\ RGt(SideSvg.outline.rBlend, R(3))
  /\ SideSvg.outline.dPath[3].sweep = 0

\* C21 as claimed: the soundhole circle of the front view is centred on the
\* body's horizontal centreline, and its centre lies exactly soundHoleCenter
\* (the derived value shown as dimension O) below the instrument's top edge.
C21_SoundholeDrawnAtO ==
  derived.valid =>
    /\ FrontSvg.centralHole.cx = FrontSvg.topMidX
    /\ RSub(FrontSvg.centralHole.cy, FrontSvg.topY) = DL.soundHoleCenter

\* the circle is on the centreline, but its height is another expression:
\* the sum of two absolute drawing coordinates divided by 1.85 or 1.9, which
\* is never soundHoleCenter below the top on the sampled scale lengths
C21_DrawnElsewhere ==
  derived.valid =>
    /\ FrontSvg.centralHole.cx = FrontSvg.topMidX
    /\ RSub(FrontSvg.centralHole.cy, FrontSvg.topY) # DL.soundHoleCenter

\* the point (x, y) lies on the straight edge from command p's end point to
\* command q's end point: it divides the edge's horizontal and vertical
\* extents in the same ratio
OnEdge(p, q, x, y) ==
  IF p.x = q.x
  THEN x = p.x
  ELSE RDiv(RSub(x, p.x), RSub(q.x, p.x)) = RDiv(RSub(y, p.y), RSub(q.y, p.y))

\* the inset's top lies on the straight part of the body's side edges
C22_TopOnStraightSides ==
  LET o == FrameSvg.outline.d
      i == frameInset(FrameSvg.config)
  IN  /\ RLe(o[3].y, i.insideTopY) /\ RLe(i.insideTopY, o[4].y)
      /\ RLe(o[8].y, i.insideTopY) /\ RLe(i.insideTopY, o[7].y)

\* C22 as claimed, for the base and for the inset's top: the inset's bottom
\* edge is exactly 18 mm above the body's bottom edge, and at the inset's
\* top (the neckStart level) the horizontal distance from each inset side
\* edge to the body outline's side edge at that height is 7 mm, i.e. the
\* point 7 mm outside the inset's top corner lies on the body's side edge.
C22_InsetWalls ==
  (derived.valid /\ Dv \in FrameScaleValues) =>
    LET o == FrameSvg.outline.d
        i == frameInset(FrameSvg.config)
    IN  /\ RSub(FrameSvg.bottomY, i.insideBottomY) = R(18)
        /\ i.dCut[5].y = i.insideBottomY
        /\ C22_TopOnStraightSides
        /\ OnEdge(o[3], o[4], RAdd(i.insideTopRightX, R(7)), i.insideTopY)
        /\ OnEdge(o[8], o[7], RSub(i.insideTopLeftX, R(7)), i.insideTopY)

\* what the code does keep: the base is 18 mm, the inset starts at the
\* neckStart level, its bottom corners are 7 mm inside the body's bottom
\* corners, and its top width is 14 mm less than the width interpolated
\* between the unrounded top and bottom corners over the whole length
C22_InsetAsBuilt ==
  (derived.valid /\ Dv \in FrameScaleValues) =>
    LET o == FrameSvg.outline
        i == frameInset(FrameSvg.config)
    IN  /\ RSub(FrameSvg.bottomY, i.insideBottomY) = R(18)
        /\ RSub(i.insideTopY, FrameSvg.topY) = DL.neckStart
        /\ C22_TopOnStraightSides
        /\ RSub(o.bottomRightX, i.insideBottomRightX) = R(7)
        /\ RSub(i.insideBottomLeftX, o.bottomLeftX) = R(7)
        /\ RMul(RSub(RAdd(RSub(i.insideTopRightX, i.insideTopLeftX), R(14)),
                     DL.headstockWidth),
                DL.overallLenMm)
             = RMul(RSub(DL.bodyMinWidth, DL.headstockWidth), DL.neckStart)

\* C23: for one request, the body outline path of the frame view is the body
\* outline path of the front view, command for command and coordinate for
\* coordinate: same start point, the same four arcs with radii
\* 0.08 * headstockWidth and 0.2 * bodyMinWidth and sweep flag 1, the same
\* margin offset.
C23_FrameOutlineIsFrontOutline ==
  derived.valid =>
    LET f == FrontSvg.outline.d
        g == FrameSvg.outline.d
    IN  /\ g = f
        /\ FrameSvg.topY = FrontSvg.topY
        /\ FrameSvg.topMidX = FrontSvg.topMidX
        /\ ArcIndices(g) = { 3, 5, 7, 9 }
        /\ \A i \in ArcIndices(g) : g[i].sweep = 1
        /\ RMul(R(100), g[3].r) = RMul(R(8), DL.headstockWidth)
        /\ g[9].r = g[3].r
        /\ RMul(R(10), g[5].r) = RMul(R(2), DL.bodyMinWidth)
        /\ g[7].r = g[5].r
        /\ g[1].y = R(drawingMargin + extraMargin)

C23_Witness ==
  /\ derived.valid
  /\ Dv = 4000
  /\ Dn = 3
  /\ FrameSvg.outline.d[3].r = Frac(1264, 100)
  /\ FrontSvg.outline.d[3].r = Frac(1264, 100)
  /\ FrameSvg.outline.d[1] = FrontSvg.outline.d[1]
  /\ Len(FrameSvg.outline.d) = 10

SceneOf(L) ==
  /\ Len(frontContainer) = 1
  /\ frontContainer[1].view = "front"
  /\ Len(sideContainer) = 1
  /\ sideContainer[1].view = "side"
  /\ Len(frameContainer) = 2
  /\ frameContainer[1].view = "frame"
  /\ frameContainer[2].view = "notes"
  /\ \A c \in { frontContainer[1].config, sideContainer[1].config,
                frameContainer[1].config } :
       /\ c.scaleMm = L.scaleMm
       /\ c.numStrings = L.numStrings
       /\ c.overallLenMm = L.overallLenMm
       /\ c.headstockWidth = L.headstockWidth
  /\ Len(critTable) = 17
  /\ [i \in 1..17 |-> critTable[i].key]
       = << "A", "B", "C", "D", "E", "F", "G", "H", "I", "J", "K", "L", "M",
            "N", "O", "P", "Q" >>
  /\ critTable[1].value = toFixed(L.scaleMm, 1)
  /\ critTable[2].value = toFixed(L.overallLenMm, 1)

\* C26: after any sequence of successful Calculate operations the front and
\* side containers each hold exactly one SVG and the frame container one SVG
\* plus the build notes, all built from the most recent request, and the
\* dimension table holds exactly the 17 rows A..Q of that request: a
\* successful Calculate leaves the scene of the scale length entered and of
\* the length of the tuning selected, whatever was on the page before.
C26_RecomputationReplaces ==
  /\ [](derived.valid => SceneOf(DL))
  /\ [][(lastEvent' = "calculate" /\ notification' = "none")
          => /\ derived'.valid
             /\ derived'.L.scaleCm = CmOf(scaleLength)
             /\ derived'.L.numStrings = Len(finalTuningVal.notes)]_vars

\* a Calculate for 45 cm and four strings; the page loads with three strings
\* selected
C26_Witness ==
  /\ lastEvent = "calculate"
  /\ notification = "none"
  /\ derived.valid
  /\ Dv = 4500
  /\ Dn = 4
  /\ Len(frontContainer) = 1
  /\ Len(frameContainer) = 2
  /\ critTable[1].value.text = 4500

\* C27: under any sequence of form events, whenever Calculate passes
\* validation and produces dimensions and drawings, the number of strings it
\* uses (the length of the selected tuning) is the numStrings value selected
\* and one of 2, 3, 4, and the tuning options on offer are those generated
\* for the scale length entered and the pattern selected; a tuning list left
\* over from another numStrings or scale length is never drawn.
C27_NoStaleTuningDrawn ==
  /\ [](InRange(scaleLength) =>
          /\ tuningOpts = updateRecommendedTunings(scaleLength, patternValue).opts
          /\ \A i \in 1..Len(tuningOpts) :
               tuningOpts[i].json => Len(tuningOpts[i].notes) = numStrings)
  /\ [][(lastEvent' = "calculate" /\ notification' = "none")
          => /\ InRange(scaleLength)
             /\ finalTuningVal.json
             /\ derived'.valid
             /\ derived'.L.numStrings = Len(finalTuningVal.notes)
             /\ derived'.L.numStrings = numStrings
             /\ numStrings \in { 2, 3, 4 }
             /\ frontContainer'[1].config.numStrings = numStrings]_vars

\* a Calculate for four strings after the scale length was entered while
\* three strings were selected
C27_Witness ==
  /\ lastEvent = "calculate"
  /\ notification = "none"
  /\ derived.valid
  /\ numStrings = 4
  /\ Dn = 4
  /\ Len(finalTuningVal.notes) = 4
  /\ Len(FrontSvg.pegs.pegHolePositions) = 4

\* C28: for every scale length in [26,70], neckThickness < bodyMinDepth and
\* the blend radius rBlend = (bodyMinDepth - neckThickness) / 2 is at least
\* rFixed = 3 (in fact at least 9.5), so in the side outline the segment from
\* the end of the blend arc (x = M + rBlend) to the start of the corner at E
\* (x = M + rFixed) never runs backwards, and the blend arc starts below the
\* end of the corner at C.
C28_BlendRadiusFits ==
  derived.valid =>
    LET o == SideSvg.outline
        d == o.dPath
        M == R(drawingMargin + extraMargin)
    IN  /\ RLt(DL.neckThickness, DL.bodyMinDepth)
        /\ RMul(R(2), o.rBlend) = RSub(DL.bodyMinDepth, DL.neckThickness)
        /\ RGe(o.rBlend, o.rFixed)
        /\ o.rFixed = R(3)
        /\ RGe(o.rBlend, Frac(95, 10))
        \* d[7] is the blend arc, d[8] the line to the corner at E
        /\ d[7].x = RAdd(M, o.rBlend)
        /\ d[8].x = RAdd(M, o.rFixed)
        /\ RLe(d[8].x, d[7].x)
        \* d[5] is the arc at C, d[6] the line to the start of the blend arc
        /\ d[5].x = d[6].x
        /\ RLe(d[5].y, d[6].y)

\* just above 450 mm, where the neck is 35 mm thick and the body 54.12 mm deep
C28_Witness ==
  /\ derived.valid
  /\ Dv = 4510
  /\ DL.neckThickness = R(35)
  /\ SideSvg.outline.rBlend = Frac(956, 100)
  /\ RLt(SideSvg.outline.dPath[8].x, SideSvg.outline.dPath[7].x)

\* C29: for every scale length in [26,70] the overall length exceeds the
\* scale length by enough that the tailpiece of the front view lies entirely
\* between the bridge's bottom edge and the body's bottom edge, vertically
\* centred there (equal gaps above and below, both >= 0), and the tail-hole
\* line 13 mm below the tailpiece's top lies inside the tailpiece
\* (tailLength > 13); the max(0, ...) clamp on tailLength is never exercised.
C29_TailpiecePlacement ==
  derived.valid =>
    LET t            == FrontSvg.tail
        bridgeBottom == RAdd(FrontSvg.bridge.y, FrontSvg.bridge.height)
        bodyBottom   == FrontSvg.bottomY
        above        == RSub(t.tailTopY, bridgeBottom)
        below        == RSub(bodyBottom, t.tailBottomY)
    IN  /\ RGt(DL.overallLenMm, DL.scaleMm)
        /\ RMul(R(10), DL.tailLength)
             = RMul(R(4), RSub(DL.overallLenMm, DL.scaleMm))
        /\ RGt(DL.tailLength, R(13))
        /\ RSub(t.tailBottomY, t.tailTopY) = DL.tailLength
        /\ above = below
        /\ RGe(above, R(0))
        /\ \A i \in 1..Len(t.d) :
             t.d[i].op # "Z" =>
               /\ RLe(bridgeBottom, t.d[i].y)
               /\ RLe(t.d[i].y, bodyBottom)
        /\ RLt(t.tailTopY, FrontSvg.tailHoles.cy)
        /\ RLt(FrontSvg.tailHoles.cy, t.tailBottomY)

\* the shortest instrument: 26 cm, overall length 431.6 mm, tailpiece 68.64 mm
\* long with 41.48 mm to spare on either side
C29_Witness ==
  /\ derived.valid
  /\ Dv = 2600
  /\ DL.tailLength = Frac(6864, 100)
  /\ RSub(FrontSvg.tail.tailTopY, FrontSvg.tail.regionStart) = Frac(4148, 100)
  /\ RSub(FrontSvg.bottomY, FrontSvg.tail.tailBottomY) = Frac(4148, 100)

\* C30: for every scale length in [26,70] the soundhole circle of the front
\* view (centre (windowBottomY + bridgeY) / 1.85 with radius 25 from 350 mm
\* on, centre (windowBottomY + bridgeY) / 1.9 with radius 15 below) lies
\* entirely between the window's bottom edge and the bridge's top edge,
\* overlapping neither.
C30_SoundholeBetweenWindowAndBridge ==
  derived.valid =>
    LET h            == FrontSvg.centralHole
        windowBottom == RAdd(FrontSvg.window.y, FrontSvg.window.height)
        bridgeTop    == FrontSvg.bridge.y
        k            == IF Dv >= 3500 THEN Frac(185, 100) ELSE Frac(19, 10)
    IN  /\ RMul(h.cy, k) = RAdd(windowBottom, bridgeTop)
        /\ h.r = (IF Dv >= 3500 THEN R(25) ELSE R(15))
        /\ RLt(windowBottom, RSub(h.cy, h.r))
        /\ RLt(RAdd(h.cy, h.r), bridgeTop)

\* 350 mm, the shortest scale with the large hole: window bottom at 290,
\* circle from 361.5 to 411.5, bridge top at 425
C30_Witness ==
  /\ derived.valid
  /\ Dv = 3500
  /\ FrontSvg.centralHole.r = R(25)
  /\ RAdd(FrontSvg.window.y, FrontSvg.window.height) = R(290)
  /\ FrontSvg.bridge.y = R(425)
  /\ RGt(RSub(FrontSvg.centralHole.cy, R(25)), R(361))
  /\ RLt(RAdd(FrontSvg.centralHole.cy, R(25)), R(412))

====
